---- MODULE Spec2Model ----
(***************************************************************************)
(* Model of the per-device engine of mikrotik-fwban (src/mikrotik.go):     *)
(* NewMikrotik/populateBanlist (reconciliation), AddIP, DelIP, the         *)
(* autoDelete goroutine and Close, together with the device they talk to.  *)
(*                                                                         *)
(* One device instance, the main goroutine (constructor, the startup       *)
(* distribution, then the syslog loop calling AddIP) and the autoDelete     *)
(* goroutine.  Time is a counter.  The other devices of a configuration     *)
(* appear through the entries they put into main's mergeIP.                 *)
(***************************************************************************)
EXTENDS Integers, Sequences, FiniteSets, TLC

\* ---------------------------------------------------------------- bounds
\* Last instant of the clock.
MaxTime == 3
\* Largest number of row identifiers handed out, over both tables of the
\* device, when the main loop still calls AddIP.
MaxId == 2
\* Largest number of rows on the device before construction (Spec).
MaxInitRows == 1
\* Largest number of configured Whitelist/Blacklist prefixes (Spec).
MaxListLen == 1
\* The same two bounds for the specification of the construction alone.
MaxReconRows == 2
MaxReconList == 2
\* Largest number of prefixes the other devices put into mergeIP.
MaxMerge == 2

\* ------------------------------------------------------- prefixes (net.IPNet)
\* A prefix is [fam, ip, bits]: the address family, the (masked) address as a
\* sequence of bits and the prefix length.  parseCIDR masks the host bits, so
\* every prefix the program holds is canonical.
NetA == [fam |-> 4, ip |-> <<0, 0>>, bits |-> 1]   \* 0/1: covers 0/2 and 1/2
NetC == [fam |-> 4, ip |-> <<0, 1>>, bits |-> 2]   \* 1/2: a host inside NetA
NetD == [fam |-> 6, ip |-> <<0, 0>>, bits |-> 2]   \* an IPv6 host
Nets == {NetA, NetC, NetD}

\* net.IPNet.Contains(ip): same family and the first `bits` bits agree.
Contains(n, m) == n.fam = m.fam /\ \A i \in 1..n.bits : n.ip[i] = m.ip[i]

\* net.IPNet.String(): address/length, the key of blackmap.
NetString(n) == <<n.fam, n.ip, n.bits>>

\* Two prefixes overlap when one holds an address of the other's range.
Overlap(n, m) ==
    n.fam = m.fam /\
    \A i \in 1..(IF n.bits < m.bits THEN n.bits ELSE m.bits) : n.ip[i] = m.ip[i]

\* time.Time{}: the zero time of a permanent entry (Dead.IsZero()).
ZeroTime == -1
\* time.Hour on the model's clock: the idle poll of autoDelete.
Hour == 2
\* The durations the callers of AddIP pass (cfg.Settings.BlockTime, and the
\* remaining life of an entry in the startup distribution).
Durations == {1, 2}
\* The remaining timeouts the device reports for its dynamic rows.
Timeouts == {1, 2}

NoEntry == [Net |-> NetA, Dead |-> ZeroTime, ID |-> 0]

\* A *BlackIP: nil, or the address of an element of a backing array of
\* mt.dynlist.  val is the element's present content; live tells whether the
\* array is still the one mt.dynlist uses (a write to the slice shows through).
NilPtr == [nil |-> TRUE, live |-> FALSE, val |-> NoEntry]

\* The arguments of AddIP while no call is in progress.
NoArg == [ip |-> NetA, duration |-> 0, id |-> 0]

VARIABLES
    autoDelete,   \* cfg.Settings.AutoDelete
    cfgWhite,     \* c.Whitelist, parsed
    cfgBlack,     \* c.Blacklist, parsed
    device,       \* rows of the managed address-list on the device
    dev0,         \* the rows the device held before construction
    nextid,       \* per family, the next row identifier the device hands out
    now,          \* time.Now()
    proc,         \* the process: "alive", "fatal" (log.Fatalln), "panic"
    mpc,          \* main goroutine: "new","loop","idle","add_local","add_notify","failed","closed"
    mres,         \* error returned by the last call of the main goroutine
    whitelist,    \* mt.whitelist
    blacklist,    \* mt.blacklist
    blackmap,     \* populateBanlist's blackmap (its keys)
    fetched,      \* the entries of getAddresslist(mt.banlist) still to visit
    dynlist,      \* mt.dynlist
    dyncap,       \* cap(mt.dynlist)
    lock,         \* mt.lock: "none", "main", "sched"
    hasData,      \* mt.hasData: "nil", "open", "closed"
    rw,           \* the embedded RWMutex: the goroutines inside an RLock
    spc,          \* autoDelete goroutine: "off","top","peek","computed","select","del_lock","del_local","stopped"
    oldest,       \* autoDelete's oldest
    oldestEntry,  \* autoDelete's oldestEntry (a pointer into the backing array)
    sarg,         \* the BlackIP autoDelete passed to DelIP
    marg,         \* the arguments of the AddIP in progress on the main goroutine
    rpc,          \* the remote call issued by the last step
    logged,       \* the line the last step wrote with log.Printf
    mergeIP,      \* main's mergeIP: the BlackIP kept for each prefix
    ips,          \* main's ips := mt.GetIPs() in the distribution loop
    todo,         \* the keys of mergeIP the distribution loop has yet to visit
    dpc,          \* main's startup distribution: "wait", "loop", "done"
    call          \* a call of one of the program's pure functions, and its result

vars == <<autoDelete, cfgWhite, cfgBlack, device, dev0, nextid, now, proc, mpc,
          mres, whitelist, blacklist, blackmap, fetched, dynlist, dyncap, lock,
          rw, hasData, spc, oldest, oldestEntry, sarg, marg, rpc, logged,
          mergeIP, ips, todo, dpc, call>>

\* ------------------------------------------------------------ sort.Sort(ByAge)
\* ByAge.Less: a[i].Dead.Before(a[j].Dead).
Less(a, b) == a.Dead < b.Dead

\* One pass of the insertion sort sort.Sort runs on slices shorter than 12:
\* the last element moves left while it is Less than its left neighbour.
RECURSIVE InsertByAge(_, _)
InsertByAge(s, e) ==
    IF s = <<>> THEN <<e>>
    ELSE IF Less(e, s[Len(s)])
         THEN Append(InsertByAge(SubSeq(s, 1, Len(s) - 1), e), s[Len(s)])
         ELSE Append(s, e)

\* The slice left in arrival order.
Unsorted(s) == s

RECURSIVE SortByAge(_)
SortByAge(s) ==
    IF s = <<>> THEN <<>>
    ELSE InsertByAge(SortByAge(SubSeq(s, 1, Len(s) - 1)), s[Len(s)])

\* ------------------------------------------------------------------ the device
\* A row of the managed list: [id, net, dynamic, timeout].  Row identifiers are
\* per address family (/ip and /ipv6 are separate tables).
RowsOf(fam) == {r \in device : r.net.fam = fam}

\* The reply of getall: the rows of one table in identifier order.
RECURSIVE SeqById(_)
SeqById(S) ==
    IF S = {} THEN <<>>
    ELSE LET r == CHOOSE r \in S : \A q \in S : r.id <= q.id
         IN  <<r>> \o SeqById(S \ {r})

\* toDuration: a dynamic row expires its timeout from now, a static row never.
toDuration(row) == IF row.dynamic THEN now + row.timeout ELSE ZeroTime

ToBlackIP(row) == [Net |-> row.net, Dead |-> toDuration(row), ID |-> row.id]

RECURSIVE MapBlackIP(_)
MapBlackIP(rows) ==
    IF rows = <<>> THEN <<>> ELSE <<ToBlackIP(Head(rows))>> \o MapBlackIP(Tail(rows))

\* getAddresslist(mt.banlist): the IPv4 rows, then the IPv6 rows, sorted by age.
getAddresslist ==
    SortByAge(MapBlackIP(SeqById(RowsOf(4))) \o MapBlackIP(SeqById(RowsOf(6))))

\* The number of row identifiers the device has handed out.
IdsOut == (nextid[4] - 1) + (nextid[6] - 1)

\* The row a remove of (family, id) addresses, if any.
RowAt(fam, id) == {r \in device : r.net.fam = fam /\ r.id = id}

\* The device refuses an add of an address the list already holds
\* ("failure: already have such entry").
DevHas(ip) == \E r \in device : r.net = ip

\* What the remote add answers: a failure of the call, a duplicate, a reply
\* without `ret`, or a reply with the new row's identifier.
AddOutcomes == {"ok", "err", "noret"}
AddResult(ip, out) ==
    IF out = "err" THEN "err" ELSE IF DevHas(ip) THEN "dup" ELSE out

NewRow(ip, duration) ==
    [id |-> nextid[ip.fam], net |-> ip, dynamic |-> duration # 0, timeout |-> duration]

\* Close (lines 475-476) closes the channel and then the client: from then on
\* every remote call fails.
ClientClosed == hasData = "closed"

\* What the remote remove answers: a failure of the call (always, on a closed
\* client) or of the row lookup ("no such item"), or success.
DelOutcomes == {"ok", "err"}
DelResult(ip, out) ==
    IF ClientClosed \/ RowAt(ip.Net.fam, ip.ID) = {} THEN "err" ELSE out

NoRpc == [kind |-> "none"]
RpcAdd(ip, duration, res) == [kind |-> "add", net |-> ip, duration |-> duration, res |-> res]
RpcDel(ip, res) == [kind |-> "remove", fam |-> ip.Net.fam, id |-> ip.ID, net |-> ip.Net, res |-> res]
RpcGet(res) == [kind |-> "getall", res |-> res]

NoLog == [msg |-> "none"]
Log(msg) == [msg |-> msg]

\* ------------------------------------------------------------ the list checks
\* AddIP's three checks: v.Net.Contains(ip.IP) over each list.
OnWhitelistExact(ip) == \E v \in whitelist : v = ip
OnWhitelist(ip) == \E v \in whitelist : Contains(v, ip)
OnBlacklistExact(ip) == \E v \in blacklist : v = ip
OnBlacklist(ip) == \E v \in blacklist : Contains(v, ip)
OnDynlistExact(ip) == \E i \in 1..Len(dynlist) : dynlist[i].Net = ip
OnDynlist(ip) == \E i \in 1..Len(dynlist) : Contains(dynlist[i].Net, ip)

\* A lookup that never finds its key.
InBlackmapNever(ip) == FALSE

\* blackmap[v.Net.String()]
InBlackmap(ip) == \E b \in blackmap : NetString(b) = NetString(ip)

ConflictIgnored(white, black) == FALSE

\* populateBanlist's check of the whitelist against blackmap.
Conflict(white, black) == \E w \in white : \E b \in black : NetString(w) = NetString(b)

\* append(mt.dynlist, e): in place while the capacity lasts, else a new backing
\* array of twice the capacity (one element for an empty slice).
GrowCap(c) == IF c = 0 THEN 1 ELSE 2 * c
AppendCap(list, c) == IF Len(list) < c THEN c ELSE GrowCap(c)

PopWhole(list, ip) == IF list[1].ID = ip.ID THEN <<>> ELSE list

\* DelIP's local step: drop the head when it carries the removed row's id.
\* A pop at the wrong end.
PopLast(list, ip) ==
    IF list[1].ID = ip.ID THEN SubSeq(list, 1, Len(list) - 1) ELSE list

PopHead(list, ip) == IF list[1].ID = ip.ID THEN Tail(list) ELSE list

\* ------------------------------------------------------------------------ Init
RowKinds(fam) ==
    {[net |-> n, dynamic |-> d, timeout |-> t] :
        n \in {m \in Nets : m.fam = fam}, d \in BOOLEAN, t \in Timeouts \cup {0}}
RowChoices(fam) ==
    {k \in RowKinds(fam) : k.dynamic = (k.timeout # 0)}

WithIds(f) ==
    {[id |-> i, net |-> f[i].net, dynamic |-> f[i].dynamic, timeout |-> f[i].timeout] :
        i \in DOMAIN f}

\* The device lists of n4 IPv4 rows and n6 IPv6 rows, identifiers 1..k in each
\* table.
DevicesOf(n4, n6) ==
    {WithIds(f4) \cup WithIds(f6) :
        f4 \in [1..n4 -> RowChoices(4)], f6 \in [1..n6 -> RowChoices(6)]}

\* The device lists of at most n rows.
InitDevices(n) ==
    UNION {DevicesOf(p[1], p[2]) : p \in {q \in (0..n) \X (0..n) : q[1] + q[2] <= n}}

ListsUpTo(n) == {l \in SUBSET Nets : Cardinality(l) <= n}

InitWith(maxRows, maxList) ==
    /\ autoDelete \in BOOLEAN
    /\ cfgWhite \in ListsUpTo(maxList)
    /\ cfgBlack \in ListsUpTo(maxList)
    /\ device \in InitDevices(maxRows)
    /\ dev0 = device
    /\ nextid = [f \in {4, 6} |-> 1 + Cardinality(RowsOf(f))]
    /\ now = 0
    /\ proc = "alive"
    /\ mpc = "new"
    /\ mres = "none"
    /\ whitelist = {}
    /\ blacklist = {}
    /\ blackmap = {}
    /\ fetched = <<>>
    /\ dynlist = <<>>
    /\ dyncap = 0
    /\ lock = "none"
    /\ rw = {}
    /\ hasData = "nil"
    /\ spc = "off"
    /\ oldest = 0
    /\ oldestEntry = NilPtr
    /\ sarg = NoEntry
    /\ marg = NoArg
    /\ rpc = NoRpc
    /\ logged = NoLog

\* A configuration with this device alone: mergeIP holds the device's own
\* dynlist, the distribution loop finds every key in ips and calls nothing.
SingleDevice == mergeIP = {} /\ ips = <<>> /\ todo = {} /\ dpc = "done"

\* No pure function is being followed while the engine runs.
NoCall == [fn |-> "none", done |-> TRUE]

Init == InitWith(MaxInitRows, MaxListLen) /\ SingleDevice /\ call = NoCall
InitRecon == InitWith(MaxReconRows, MaxReconList) /\ SingleDevice /\ call = NoCall

\* ------------------------------------------------------------ shared pieces
\* A process that keeps running after log.Fatalln or a panic.
AliveAlways == TRUE

\* log.Fatalln and a runtime panic end the process: no goroutine steps again.
Alive == proc = "alive"

distVars == <<mergeIP, ips, todo, dpc>>
\* What the engine itself never writes: the configuration, the device as it
\* was found, and main's locals of the startup distribution.
cfgVars == <<autoDelete, cfgWhite, cfgBlack, dev0, distVars, call>>
listVars == <<whitelist, blacklist>>
schedVars == <<spc, oldest, oldestEntry, sarg>>

\* The list checks made for a permanent add as well.
SkipReasonAlways(ip, duration) ==
    IF OnWhitelist(ip) THEN "whitelist"
    ELSE IF OnBlacklist(ip) THEN "blacklist"
    ELSE IF OnDynlist(ip) THEN "dynlist"
    ELSE "none"

\* AddIP, lines 396-421: a dynamic add is skipped, with a log line, when a list
\* covers ip.IP; the lists are tried in this order.
SkipReason(ip, duration) ==
    IF duration = 0 THEN "none"
    ELSE IF OnWhitelist(ip) THEN "whitelist"
    ELSE IF OnBlacklist(ip) THEN "blacklist"
    ELSE IF OnDynlist(ip) THEN "dynlist"
    ELSE "none"
AddSkips(ip, duration) == SkipReason(ip, duration) # "none"

\* A dynamic add entered into the dynlist whatever the switch says.
AddInsertsAlways(duration) == duration # 0

\* AddIP, line 458: only a dynamic add under auto-delete enters the dynlist.
AddInserts(duration) == duration # 0 /\ autoDelete

\* The device after the remote add answered res.
AddedDevice(ip, duration, res) ==
    IF res \in {"ok", "noret"} THEN device \cup {NewRow(ip, duration)} ELSE device
AddedNextid(ip, res) ==
    IF res \in {"ok", "noret"} THEN [nextid EXCEPT ![ip.fam] = @ + 1] ELSE nextid

\* The duplicate error returned like any other remote error.
AddErrorDupFails(res) ==
    CASE res \in {"err", "dup"} -> "remote"
      [] res = "noret" -> "missing"
      [] OTHER -> "nil"

\* A reply without `ret` taken for a success.
AddErrorLax(res) ==
    CASE res = "err" -> "remote"
      [] OTHER -> "nil"

\* Every answer taken for a success.
AddErrorNone(res) == "nil"

\* The error AddIP returns for the remote answer res (lines 443-455).
AddError(res) ==
    CASE res = "err" -> "remote"
      [] res = "noret" -> "missing"
      [] OTHER -> "nil"

\* DelIP, lines 367-374: the local step runs only after a successful remove
\* under auto-delete; mt.dynlist[0] of an empty dynlist is a runtime panic.
DelPanics == autoDelete /\ dynlist = <<>>
DelLocalList(ip) == IF autoDelete THEN PopHead(dynlist, ip) ELSE dynlist
DelLocalCap(ip) == IF DelLocalList(ip) = dynlist THEN dyncap ELSE dyncap - 1

\* The device after the remote remove answered res.
RemovedDevice(ip, res) ==
    IF res = "ok" THEN device \ RowAt(ip.Net.fam, ip.ID) ELSE device

\* ----------------------------------------------- NewMikrotik, populateBanlist
\* Dial, NewClient or Login fails (lines 92-114): no instance; main exits.
ConnectFail ==
    /\ Alive /\ mpc = "new"
    /\ mpc' = "failed" /\ mres' = "connect" /\ proc' = "fatal"
    /\ rpc' = NoRpc /\ logged' = NoLog
    /\ UNCHANGED <<cfgVars, rw, device, nextid, now, listVars, blackmap, fetched,
                   dynlist, dyncap, lock, hasData, schedVars, marg>>

\* populateBanlist up to the fetch of the managed list (lines 131-176); the
\* query answers out.  A conflict returns an error and main exits; a failed
\* query exits in getAddresslist.
PopulateStep(out) ==
    /\ Alive /\ mpc = "new"
    /\ whitelist' = cfgWhite /\ blacklist' = cfgBlack
    /\ IF Conflict(cfgWhite, cfgBlack)
       THEN /\ mpc' = "failed" /\ mres' = "conflict" /\ proc' = "fatal"
            /\ rpc' = NoRpc
            /\ UNCHANGED <<blackmap, fetched>>
       ELSE /\ rpc' = RpcGet(out)
            /\ IF out = "err"
               THEN /\ proc' = "fatal"
                    /\ UNCHANGED <<mpc, mres, blackmap, fetched>>
               ELSE /\ blackmap' = cfgBlack
                    /\ fetched' = getAddresslist
                    /\ mpc' = "loop"
                    /\ UNCHANGED <<mres, proc>>
    /\ logged' = NoLog
    /\ UNCHANGED <<cfgVars, rw, device, nextid, now, dynlist, dyncap, lock, hasData,
                   schedVars, marg>>

Populate == \E out \in {"ok", "err"} : PopulateStep(out)

WhitelistedExact(v) == v.Net \in whitelist

\* Lines 177-187: a fetched entry some whitelist prefix covers.
Whitelisted(v) == OnWhitelist(v.Net)

\* A loop that keeps whatever is neither whitelisted nor blacklisted.
VerdictKeepsPermanent(v) ==
    IF Whitelisted(v) THEN "whitelisted"
    ELSE IF InBlackmap(v.Net)
         THEN (IF v.Dead = ZeroTime THEN "match" ELSE "dynamic")
         ELSE "keep"

\* Lines 177-213: what the loop does with the entry v.
\*   "whitelisted", "permanent", "dynamic": DelIP(v), with that log line;
\*   "match": a permanent entry on the blacklist, taken off blackmap;
\*   "keep":  a dynamic entry off the blacklist, appended to the dynlist.
Verdict(v) ==
    IF Whitelisted(v) THEN "whitelisted"
    ELSE IF v.Dead = ZeroTime
         THEN (IF InBlackmap(v.Net) THEN "match" ELSE "permanent")
         ELSE (IF InBlackmap(v.Net) THEN "dynamic" ELSE "keep")

\* One turn of the loop over the fetched entries (lines 176-214); a remote
\* remove answers out.
ReconEntryStep(out) ==
    /\ Alive /\ mpc = "loop" /\ fetched # <<>>
    /\ LET v == Head(fetched) IN
       CASE Verdict(v) = "match" ->
                /\ blackmap' = {b \in blackmap : NetString(b) # NetString(v.Net)}
                /\ fetched' = Tail(fetched)
                /\ rpc' = NoRpc /\ logged' = NoLog
                /\ UNCHANGED <<device, dynlist, dyncap, mpc, mres, proc>>
         [] Verdict(v) = "keep" ->
                /\ dynlist' = Append(dynlist, v)
                /\ dyncap' = AppendCap(dynlist, dyncap)
                /\ fetched' = Tail(fetched)
                /\ rpc' = NoRpc /\ logged' = NoLog
                /\ UNCHANGED <<device, blackmap, mpc, mres, proc>>
         [] OTHER ->
                LET res == DelResult(v, out) IN
                /\ logged' = Log(Verdict(v))
                /\ rpc' = RpcDel(v, res)
                /\ device' = RemovedDevice(v, res)
                /\ IF res = "err"
                   THEN /\ mpc' = "failed" /\ mres' = "remote" /\ proc' = "fatal"
                        /\ UNCHANGED <<fetched, dynlist, dyncap>>
                   ELSE IF DelPanics
                   THEN /\ proc' = "panic"
                        /\ UNCHANGED <<mpc, mres, fetched, dynlist, dyncap>>
                   ELSE /\ dynlist' = DelLocalList(v)
                        /\ dyncap' = DelLocalCap(v)
                        /\ fetched' = Tail(fetched)
                        /\ UNCHANGED <<mpc, mres, proc>>
                /\ UNCHANGED blackmap
    /\ UNCHANGED <<cfgVars, rw, nextid, now, listVars, lock, hasData, schedVars, marg>>

ReconEntry == \E out \in DelOutcomes : ReconEntryStep(out)

\* Lines 215-220: AddIP(v.Net, 0, "") for the blacklist entry v left in
\* blackmap; the remote add answers out.  With duration 0 AddIP makes none of
\* its list checks (line 397) and no dynlist insert (line 458).
ReconAddStep(v, out) ==
    /\ Alive /\ mpc = "loop" /\ fetched = <<>> /\ v \in blackmap
    /\ IF AddSkips(v, 0)
       THEN /\ rpc' = NoRpc /\ logged' = Log(SkipReason(v, 0))
            /\ blackmap' = blackmap \ {v}
            /\ UNCHANGED <<device, nextid, mpc, mres, proc>>
       ELSE LET res == AddResult(v, out) IN
            /\ rpc' = RpcAdd(v, 0, res)
            /\ logged' = NoLog
            /\ device' = AddedDevice(v, 0, res)
            /\ nextid' = AddedNextid(v, res)
            /\ IF AddError(res) = "nil"
               THEN /\ blackmap' = blackmap \ {v}
                    /\ UNCHANGED <<mpc, mres, proc>>
               ELSE /\ mpc' = "failed" /\ mres' = AddError(res) /\ proc' = "fatal"
                    /\ UNCHANGED blackmap
    /\ UNCHANGED <<cfgVars, rw, now, listVars, fetched, dynlist, dyncap, lock, hasData,
                   schedVars, marg>>

ReconAdd == \E v \in Nets, out \in AddOutcomes : ReconAddStep(v, out)

\* A constructor that does not wait for the loops.
PopulateReturnsEarly == TRUE

\* Lines 176-222: populateBanlist returns nil once both loops have run out.
PopulateReturns == fetched = <<>> /\ blackmap = {}

\* populateBanlist returns nil; NewMikrotik starts autoDelete (lines 121-128).
ReconDone ==
    /\ Alive /\ mpc = "loop" /\ PopulateReturns
    /\ mpc' = "idle" /\ mres' = "nil"
    /\ IF autoDelete
       THEN hasData' = "open" /\ spc' = "top"
       ELSE UNCHANGED <<hasData, spc>>
    /\ rpc' = NoRpc /\ logged' = NoLog
    /\ UNCHANGED <<cfgVars, rw, device, nextid, now, proc, listVars, blackmap, fetched,
                   dynlist, dyncap, lock, oldest, oldestEntry, sarg, marg>>

NextRecon == ConnectFail \/ Populate \/ ReconEntry \/ ReconAdd \/ ReconDone

SpecRecon == InitRecon /\ [][NextRecon]_vars

\* -------------------------------------------------------------------- AddIP
Unlocked == TRUE

\* A read lock kept after the peek.
RUnlockNever(g) == rw

\* mt.RLock() and mt.RUnlock() by goroutine g.  The sections under mt.Lock()
\* (AddIP lines 459-462, DelIP lines 368-373) and main's own read sections
\* (AddIP lines 413-421, GetIPs) are single steps of the model, so between two
\* steps the read lock can be held by autoDelete alone.
RLock(g) == rw \cup {g}
RUnlock(g) == rw \ {g}
\* mt.Lock() returns only when nobody is inside an RLock.
NoReader == rw = {}

\* mt.lock.Lock() returns only when nobody holds the mutation lock.
LockFree == lock = "none"

\* AddIP(ip, duration, _) called from the main goroutine, up to its return or
\* to the reply of the remote add, which answers out (lines 385-455).  main
\* exits on an error.
AddIPCall(ip, duration, out) ==
    /\ Alive /\ mpc = "idle" /\ LockFree
    /\ IF AddSkips(ip, duration)
       THEN /\ mres' = "nil" /\ rpc' = NoRpc
            /\ logged' = Log(SkipReason(ip, duration))
            /\ UNCHANGED <<device, nextid, proc, mpc, lock, marg>>
       ELSE LET res == AddResult(ip, out) IN
            /\ IdsOut < MaxId
            /\ rpc' = RpcAdd(ip, duration, res)
            /\ logged' = NoLog
            /\ device' = AddedDevice(ip, duration, res)
            /\ nextid' = AddedNextid(ip, res)
            /\ IF AddError(res) # "nil"
               THEN /\ mres' = AddError(res) /\ proc' = "fatal"
                    /\ UNCHANGED <<mpc, lock, marg>>
               ELSE IF res = "ok" /\ AddInserts(duration)
               THEN /\ mpc' = "add_local" /\ lock' = "main"
                    /\ marg' = [ip |-> ip, duration |-> duration, id |-> nextid[ip.fam]]
                    /\ UNCHANGED <<mres, proc>>
               ELSE /\ mres' = "nil"
                    /\ UNCHANGED <<proc, mpc, lock, marg>>
    /\ UNCHANGED <<cfgVars, rw, now, listVars, blackmap, fetched, dynlist, dyncap,
                   hasData, schedVars>>

MainAddIP ==
    \E ip \in Nets, duration \in Durations, out \in AddOutcomes :
        AddIPCall(ip, duration, out)

\* The entry AddIP builds at line 460.
NewEntry == [Net |-> marg.ip, Dead |-> now + marg.duration, ID |-> marg.id]

\* An append that forgets what the list held.
AddLocalAlone == <<NewEntry>>

\* Lines 459-462: append and sort, under the list lock.
AddLocalList == SortByAge(Append(dynlist, NewEntry))

\* What autoDelete's pointer sees after the append: the sorted content of the
\* same array when the append was in place, the old array otherwise.  The
\* sort writes element 0 only for an entry that expires before the head, and
\* autoDelete reads *oldestEntry (line 261, outside any lock) only once the
\* head's expiry is reached; the two overlap only if the clock advances by a
\* whole ban duration between lines 460 and 461, which is left out.
AddLocalPtr ==
    IF oldestEntry.nil \/ ~oldestEntry.live THEN oldestEntry
    ELSE IF Len(dynlist) < dyncap
         THEN [oldestEntry EXCEPT !.val = AddLocalList[1]]
         ELSE [oldestEntry EXCEPT !.live = FALSE]

MainAddLocal ==
    /\ Alive /\ mpc = "add_local" /\ NoReader
    /\ dynlist' = AddLocalList
    /\ dyncap' = AppendCap(dynlist, dyncap)
    /\ oldestEntry' = AddLocalPtr
    /\ mpc' = "add_notify"
    /\ rpc' = NoRpc /\ logged' = NoLog
    /\ UNCHANGED <<cfgVars, rw, device, nextid, now, proc, mres, listVars, blackmap,
                   fetched, lock, hasData, spc, oldest, sarg, marg>>

\* Lines 463-470: the send succeeds only if autoDelete is receiving in its
\* select; otherwise the default case logs and drops it.  AddIP returns,
\* unlocking.  On a delivery autoDelete leaves the select by its first case
\* (lines 245-255, logging "Received new data indication" under -debug) and is
\* back at line 229, which rewrites its locals before any read.
\* A send that always finds its receiver.
AlwaysDelivered == TRUE

Delivered == spc = "select"

MainAddNotify ==
    /\ Alive /\ mpc = "add_notify"
    /\ IF Delivered
       THEN /\ spc' = "top" /\ oldest' = 0 /\ oldestEntry' = NilPtr
            /\ logged' = Log("received")
       ELSE /\ logged' = Log("hasData full")
            /\ UNCHANGED <<spc, oldest, oldestEntry>>
    /\ lock' = "none"
    /\ mpc' = "idle" /\ mres' = "nil"
    /\ marg' = NoArg
    /\ rpc' = NoRpc
    /\ UNCHANGED <<cfgVars, rw, device, nextid, now, proc, listVars, blackmap, fetched,
                   dynlist, dyncap, hasData, sarg>>

\* Close (lines 473-477): closing a nil channel is a runtime panic.
MainClose ==
    /\ Alive /\ mpc = "idle"
    /\ IF hasData = "nil"
       THEN proc' = "panic" /\ UNCHANGED <<hasData, mpc>>
       ELSE hasData' = "closed" /\ mpc' = "closed" /\ UNCHANGED proc
    /\ rpc' = NoRpc /\ logged' = NoLog
    /\ UNCHANGED <<cfgVars, rw, device, nextid, now, mres, listVars, blackmap, fetched,
                   dynlist, dyncap, lock, schedVars, marg>>

\* --------------------------------------------------------------- autoDelete
\* A wake time taken from the last entry of the dynlist.
WakeTimeLast == IF dynlist # <<>> THEN dynlist[Len(dynlist)].Dead ELSE now + Hour

\* Lines 230-239: the instant autoDelete's timer is set for.
WakeTime == IF dynlist # <<>> THEN dynlist[1].Dead ELSE now + Hour

\* Line 229: autoDelete takes the read lock.
SchedRLock ==
    /\ Alive /\ spc = "top"
    /\ rw' = RLock("sched")
    /\ spc' = "peek"
    /\ rpc' = NoRpc /\ logged' = NoLog
    /\ UNCHANGED <<cfgVars, device, nextid, now, proc, mpc, mres, listVars, blackmap,
                   fetched, dynlist, dyncap, lock, hasData, oldest, oldestEntry,
                   sarg, marg>>

\* Lines 230-240: peek at the head under the read lock, and release it.
SchedCompute ==
    /\ Alive /\ spc = "peek"
    /\ oldest' = WakeTime
    /\ oldestEntry' = IF dynlist # <<>>
                      THEN [nil |-> FALSE, live |-> TRUE, val |-> dynlist[1]]
                      ELSE NilPtr
    /\ rw' = RUnlock("sched")
    /\ spc' = "computed"
    /\ rpc' = NoRpc /\ logged' = NoLog
    /\ UNCHANGED <<cfgVars, device, nextid, now, proc, mpc, mres, listVars, blackmap,
                   fetched, dynlist, dyncap, lock, hasData, sarg, marg>>

\* Line 244: the goroutine blocks in the select.
SchedSelect ==
    /\ Alive /\ spc = "computed"
    /\ spc' = "select"
    /\ rpc' = NoRpc /\ logged' = NoLog
    /\ UNCHANGED <<cfgVars, rw, device, nextid, now, proc, mpc, mres, listVars, blackmap,
                   fetched, dynlist, dyncap, lock, hasData, oldest, oldestEntry,
                   sarg, marg>>

\* Lines 245-251: the channel was closed; the goroutine returns.
SchedClosed ==
    /\ Alive /\ spc = "select" /\ hasData = "closed"
    /\ spc' = "stopped" /\ oldest' = 0 /\ oldestEntry' = NilPtr
    /\ rpc' = NoRpc /\ logged' = NoLog
    /\ UNCHANGED <<cfgVars, rw, device, nextid, now, proc, mpc, mres, listVars, blackmap,
                   fetched, dynlist, dyncap, lock, hasData, sarg, marg>>

\* A timer that fires at any time.
TimerAlways == TRUE

\* time.After(time.Until(oldest)) has fired.
TimerDue == now >= oldest

\* Lines 256-264: on the timer, DelIP(*oldestEntry) if there was a head.
\* oldest and oldestEntry are not read again before line 229 rewrites them.
SchedTimer ==
    /\ Alive /\ spc = "select" /\ TimerDue
    /\ IF oldestEntry.nil
       THEN spc' = "top" /\ UNCHANGED sarg
       ELSE spc' = "del_lock" /\ sarg' = oldestEntry.val
    /\ oldest' = 0 /\ oldestEntry' = NilPtr
    /\ rpc' = NoRpc /\ logged' = NoLog
    /\ UNCHANGED <<cfgVars, rw, device, nextid, now, proc, mpc, mres, listVars, blackmap,
                   fetched, dynlist, dyncap, lock, hasData, marg>>

\* DelIP from autoDelete, lines 352-366: lock, then the remote remove, which
\* answers out.  An error is returned and autoDelete exits the process (262).
DelIPRemote(out) ==
    /\ Alive /\ spc = "del_lock" /\ LockFree
    /\ LET res == DelResult(sarg, out) IN
         /\ rpc' = RpcDel(sarg, res)
         /\ device' = RemovedDevice(sarg, res)
         /\ IF res = "err"
            THEN proc' = "fatal" /\ UNCHANGED <<spc, lock>>
            ELSE spc' = "del_local" /\ lock' = "sched" /\ UNCHANGED proc
    /\ logged' = NoLog
    /\ UNCHANGED <<cfgVars, rw, nextid, now, mpc, mres, listVars, blackmap, fetched,
                   dynlist, dyncap, hasData, oldest, oldestEntry, sarg, marg>>

SchedDelRemote == \E out \in DelOutcomes : DelIPRemote(out)

\* DelIP from autoDelete, lines 367-375: the local step, then unlock.
SchedDelLocal ==
    /\ Alive /\ spc = "del_local" /\ NoReader
    /\ IF DelPanics
       THEN proc' = "panic" /\ UNCHANGED <<dynlist, dyncap, spc, lock, sarg>>
       ELSE /\ dynlist' = DelLocalList(sarg)
            /\ dyncap' = DelLocalCap(sarg)
            /\ spc' = "top" /\ lock' = "none"
            /\ sarg' = NoEntry
            /\ UNCHANGED proc
    /\ rpc' = NoRpc /\ logged' = NoLog
    /\ UNCHANGED <<cfgVars, rw, device, nextid, now, mpc, mres, listVars, blackmap,
                   fetched, hasData, oldest, oldestEntry, marg>>

\* ------------------------------------------------------------------ the clock
\* Time passes once the instance is constructed.
Tick ==
    /\ Alive /\ mpc \notin {"new", "loop"} /\ now < MaxTime
    /\ now' = now + 1
    /\ rpc' = NoRpc /\ logged' = NoLog
    /\ UNCHANGED <<cfgVars, rw, device, nextid, proc, mpc, mres, listVars, blackmap,
                   fetched, dynlist, dyncap, lock, hasData, schedVars, marg>>

Next ==
    \/ NextRecon
    \/ MainAddIP \/ MainAddLocal \/ MainAddNotify \/ MainClose
    \/ SchedRLock \/ SchedCompute \/ SchedSelect \/ SchedClosed \/ SchedTimer
    \/ SchedDelRemote \/ SchedDelLocal
    \/ Tick

Spec == Init /\ [][Next]_vars

\* GetIPs (lines 479-484) called from the goroutine main starts for SIGUSR1
\* (part_002 lines 136-145) once the instances exist: the read lock, the copy
\* of the dynlist, which is logged and kept nowhere, and the deferred unlock.
GetIPsRLock ==
    /\ Alive /\ mpc \in {"idle", "add_local", "add_notify"}
    /\ "dump" \notin rw
    /\ rw' = RLock("dump")
    /\ rpc' = NoRpc /\ logged' = NoLog
    /\ UNCHANGED <<cfgVars, device, nextid, now, proc, mpc, mres, listVars, blackmap,
                   fetched, dynlist, dyncap, lock, hasData, schedVars, marg>>

GetIPsReturn ==
    /\ Alive /\ "dump" \in rw
    /\ rw' = RUnlock("dump")
    /\ rpc' = NoRpc /\ logged' = NoLog
    /\ UNCHANGED <<cfgVars, device, nextid, now, proc, mpc, mres, listVars, blackmap,
                   fetched, dynlist, dyncap, lock, hasData, schedVars, marg>>

\* The engine with a concurrent reader of the dynlist.
SpecLocks == Init /\ [][Next \/ GetIPsRLock \/ GetIPsReturn]_vars

\* The same steps from a device that holds up to MaxReconRows rows when
\* NewMikrotik is called.
SpecFull == InitRecon /\ [][Next]_vars

\* ------------------------------------------------ the startup distribution
\* main, lines 95-133, seen from one device D of several.  The clock stands
\* still from D's construction to the end of the loop: the startup is short
\* against the timeouts, so no entry expires in it and every duration passed
\* to AddIP is positive.
Key(e) == NetString(e.Net)
Keys(m) == {Key(e) : e \in m}

\* The dynlist entries the other devices can hold after their construction.
OtherEntries == {[Net |-> n, Dead |-> t, ID |-> 1] : n \in Nets, t \in Timeouts}
\* mergeIP as the other devices leave it: at most one BlackIP for a key.
MergeMaps(k) ==
    {m \in SUBSET OtherEntries :
        /\ Cardinality(m) <= k
        /\ \A a, b \in m : Key(a) = Key(b) => a = b}

InitSync ==
    /\ InitWith(MaxReconRows, MaxReconList) /\ autoDelete
    /\ mergeIP \in MergeMaps(MaxMerge)
    /\ ips = <<>> /\ todo = {} /\ dpc = "wait"
    /\ call = NoCall

\* Lines 110-114: D's own entries enter mergeIP under the keys it lacks.
Merged ==
    mergeIP \cup
    {dynlist[i] : i \in {j \in 1..Len(dynlist) :
                            /\ Key(dynlist[j]) \notin Keys(mergeIP)
                            /\ \A h \in 1..(j - 1) : Key(dynlist[h]) # Key(dynlist[j])}}

\* Lines 110-120: the merge of D's entries and, once every device is
\* connected, ips := mt.GetIPs() at the head of D's distribution loop; with
\* the clock standing still the dynlist is the same at both.
DistStart ==
    /\ Alive /\ mpc = "idle" /\ dpc = "wait"
    /\ mergeIP' = Merged
    /\ ips' = dynlist
    /\ todo' = Keys(Merged)
    /\ dpc' = "loop"
    /\ rpc' = NoRpc /\ logged' = NoLog
    /\ UNCHANGED <<autoDelete, cfgWhite, cfgBlack, dev0, call, rw, device, nextid, now,
                   proc, mpc, mres, listVars, blackmap, fetched, dynlist, dyncap, lock,
                   hasData, schedVars, marg>>

\* Lines 122-128: the key is the prefix of an entry of ips.
Found(k) == \E i \in 1..Len(ips) : Key(ips[i]) = k

\* Lines 121-131: one round of the loop over mergeIP, for key k; the remote
\* add, if the round comes to it, answers out.  main drops what AddIP returns
\* (line 130) and goes on with the next key.
DistStep(k, out) ==
    /\ Alive /\ mpc = "idle" /\ dpc = "loop" /\ k \in todo /\ LockFree
    /\ todo' = todo \ {k}
    /\ LET e == CHOOSE x \in mergeIP : Key(x) = k
           ip == e.Net
           duration == e.Dead - now
       IN  IF Found(k)
           THEN /\ rpc' = NoRpc /\ logged' = NoLog
                /\ UNCHANGED <<device, nextid, mres, mpc, lock, marg>>
           ELSE IF AddSkips(ip, duration)
           THEN /\ mres' = "nil" /\ rpc' = NoRpc
                /\ logged' = Log(SkipReason(ip, duration))
                /\ UNCHANGED <<device, nextid, mpc, lock, marg>>
           ELSE LET res == AddResult(ip, out) IN
                /\ rpc' = RpcAdd(ip, duration, res)
                /\ logged' = NoLog
                /\ device' = AddedDevice(ip, duration, res)
                /\ nextid' = AddedNextid(ip, res)
                /\ IF AddError(res) = "nil" /\ res = "ok" /\ AddInserts(duration)
                   THEN /\ mpc' = "add_local" /\ lock' = "main"
                        /\ marg' = [ip |-> ip, duration |-> duration, id |-> nextid[ip.fam]]
                        /\ UNCHANGED mres
                   ELSE /\ mres' = AddError(res)
                        /\ UNCHANGED <<mpc, lock, marg>>
    /\ UNCHANGED <<autoDelete, cfgWhite, cfgBlack, dev0, call, rw, mergeIP, ips, dpc, now,
                   proc, listVars, blackmap, fetched, dynlist, dyncap, hasData,
                   schedVars>>

\* Line 132: the loop over mergeIP is through.
DistDone ==
    /\ Alive /\ mpc = "idle" /\ dpc = "loop" /\ todo = {}
    /\ dpc' = "done"
    /\ rpc' = NoRpc /\ logged' = NoLog
    /\ UNCHANGED <<autoDelete, cfgWhite, cfgBlack, dev0, call, rw, mergeIP, ips, todo,
                   device, nextid, now, proc, mpc, mres, listVars, blackmap, fetched,
                   dynlist, dyncap, lock, hasData, schedVars, marg>>

\* Construction and distribution with auto-delete on, while autoDelete runs;
\* the construction's remote calls succeed, the distribution's may fail.
NextSyncBase ==
    \/ PopulateStep("ok") \/ ReconEntryStep("ok")
    \/ (\E v \in Nets : ReconAddStep(v, "ok"))
    \/ ReconDone
    \/ DistStart \/ DistDone
    \/ MainAddLocal \/ MainAddNotify
    \/ SchedRLock \/ SchedCompute \/ SchedSelect

NextSync == NextSyncBase \/ (\E k \in todo, out \in AddOutcomes : DistStep(k, out))

SpecSync == InitSync /\ [][NextSync]_vars

\* The same with every remote call of the distribution succeeding.
NextSyncOk == NextSyncBase \/ (\E k \in todo : DistStep(k, "ok"))

SpecSyncOk == InitSync /\ [][NextSyncOk]_vars

\* ------------------------------------------------- every remote call succeeds
\* The program with auto-delete on, no whitelist, a device that answers every
\* call and a main loop that never calls Close.  Each goroutine that can take
\* a step takes one eventually, and the clock advances to MaxTime.
InitLive == Init /\ autoDelete /\ cfgWhite = {}

NextLive ==
    \/ PopulateStep("ok") \/ ReconEntryStep("ok")
    \/ (\E v \in Nets : ReconAddStep(v, "ok"))
    \/ ReconDone
    \/ (\E ip \in Nets, duration \in Durations : AddIPCall(ip, duration, "ok"))
    \/ MainAddLocal \/ MainAddNotify
    \/ SchedRLock \/ SchedCompute \/ SchedSelect \/ SchedTimer
    \/ DelIPRemote("ok") \/ SchedDelLocal
    \/ Tick

Fairness ==
    /\ WF_vars(PopulateStep("ok")) /\ WF_vars(ReconEntryStep("ok"))
    /\ WF_vars(\E v \in Nets : ReconAddStep(v, "ok"))
    /\ WF_vars(ReconDone)
    /\ WF_vars(MainAddLocal) /\ WF_vars(MainAddNotify)
    /\ WF_vars(SchedRLock) /\ WF_vars(SchedCompute)
    /\ WF_vars(SchedSelect) /\ WF_vars(SchedTimer)
    /\ WF_vars(DelIPRemote("ok")) /\ WF_vars(SchedDelLocal)
    /\ WF_vars(Tick)

SpecLive == InitLive /\ [][NextLive]_vars /\ Fairness


\* ------------------------------------------------------------- with a Close
\* The same program when Close may be called at any time between two AddIP
\* calls: autoDelete's steps stay fair, Close itself need not happen.
NextClose == NextLive \/ MainClose \/ SchedClosed

FairnessClose == Fairness /\ WF_vars(SchedClosed)

SpecClose == InitLive /\ [][NextClose]_vars /\ FairnessClose


\* ===================================================================== claims
\* Prefix w covers prefix p: same family, w no longer than p, and p's address
\* agrees with w on w's bits.
Covers(w, p) ==
    /\ w.fam = p.fam /\ w.bits <= p.bits
    /\ \A i \in 1..w.bits : w.ip[i] = p.ip[i]
CoveredBy(list, p) == \E w \in list : Covers(w, p)

Entries(list) == {list[i] : i \in 1..Len(list)}

C2_SkipStep ==
    \A ip \in {n \in Nets : CoveredBy(cfgWhite, n)} :
        \A duration \in Durations, out \in AddOutcomes :
            AddIPCall(ip, duration, out)
                => /\ rpc' = NoRpc /\ device' = device
                   /\ mres' = "nil" /\ proc' = proc /\ mpc' = "idle"
                   /\ dynlist' = dynlist
C2_WhitelistPrecedence ==
    /\ [](\A e \in Entries(dynlist) : ~CoveredBy(cfgWhite, e.Net))
    /\ [][C2_SkipStep]_vars

\* AddIP has just refused a whitelisted prefix.
C2_Witness ==
    /\ logged = Log("whitelist") /\ rpc = NoRpc /\ mres = "nil"
    /\ mpc = "idle" /\ proc = "alive"

\* C3 as stated: two dynamic AddIP calls with overlapping prefixes, neither
\* covered by the whitelist or the blacklist, leave at most one dynlist entry:
\* starting from an empty device, no two dynlist entries overlap.
C3_AsStated ==
    dev0 = {} =>
        \A i, j \in 1..Len(dynlist) :
            i # j => ~Overlap(dynlist[i].Net, dynlist[j].Net)

\* C3, amended: a dynamic AddIP of a prefix that an entry still on the dynlist
\* covers (the same prefix again, or a narrower one) makes no remote call,
\* returns nil and adds no entry; starting from an empty device, a dynlist
\* entry covered by another one was added before it.
C3_SkipStep ==
    \A ip \in {n \in Nets : \E e \in Entries(dynlist) : Covers(e.Net, n)} :
        \A duration \in Durations, out \in AddOutcomes :
            AddIPCall(ip, duration, out)
                => /\ rpc' = NoRpc /\ device' = device
                   /\ mres' = "nil" /\ proc' = proc /\ mpc' = "idle"
                   /\ dynlist' = dynlist
C3_CoveredAddIsNoop ==
    /\ [](dev0 = {} =>
            \A i, j \in 1..Len(dynlist) :
                (i # j /\ Covers(dynlist[i].Net, dynlist[j].Net))
                    => dynlist[j].ID < dynlist[i].ID)
    /\ [][C3_SkipStep]_vars

\* The second AddIP of a prefix has just been refused; the dynlist holds the
\* entry of the first.
C3_Witness ==
    /\ dev0 = {} /\ logged = Log("dynlist") /\ rpc = NoRpc /\ mres = "nil"
    /\ Len(dynlist) = 1 /\ mpc = "idle"

\* C4: mutation serialization.  The main goroutine's AddIP and autoDelete's
\* DelIP are never both between their remote call and the end of their dynlist
\* write; each is there only as the holder of mt.lock, and neither issues its
\* remote call while the other is there.
InAddIP == mpc \in {"add_local", "add_notify"}
InDelIP == spc = "del_local"
C4_Serialized ==
    /\ [](/\ ~(InAddIP /\ InDelIP)
          /\ (InAddIP => lock = "main")
          /\ (InDelIP => lock = "sched"))
    /\ [][/\ (rpc'.kind = "add" => ~InDelIP)
          /\ ((rpc'.kind = "remove" /\ spc = "del_lock") => ~InAddIP)
          /\ ((InAddIP /\ dynlist' # dynlist) => mpc = "add_local")
          /\ ((InDelIP /\ dynlist' # dynlist) => spc' = "top")]_vars

\* autoDelete waits for the lock while AddIP, past its remote call, holds it.
C4_Witness == mpc = "add_local" /\ spc = "del_lock" /\ lock = "main"

\* C5: single-entry expiry.  With dynlist = <<A, B>> and A expiring before B:
\* when the timer armed for A's expiry fires autoDelete calls DelIP for A; that
\* call removes A's row and no other, and pops A alone; and while B's expiry
\* is not reached no step takes B off the dynlist or B's row off the device.
TwoEntries == Len(dynlist) = 2 /\ dynlist[1].Dead < dynlist[2].Dead
RowOf(e) == {r \in device : r.net.fam = e.Net.fam /\ r.id = e.ID}
C5_Step ==
    TwoEntries =>
        LET A == dynlist[1]
            B == dynlist[2]
        IN  /\ (SchedTimer /\ ~oldestEntry.nil /\ oldest = A.Dead)
                => (spc' = "del_lock" /\ sarg' = A)
            /\ \A out \in DelOutcomes :
                (sarg = A /\ DelIPRemote(out))
                    => /\ rpc'.kind = "remove" /\ rpc'.fam = A.Net.fam
                       /\ rpc'.id = A.ID
                       /\ device \ device' \subseteq RowOf(A)
                       /\ dynlist' = dynlist
            /\ (sarg = A /\ SchedDelLocal)
                => (dynlist' = <<B>> /\ spc' = "top")
            /\ now < B.Dead
                => (B \in Entries(dynlist') /\ RowOf(B) \subseteq device')
C5_SingleExpiry == [][C5_Step]_vars

\* DelIP for A has removed A's row; B, not yet due, is on the dynlist and on
\* the device.
C5_Witness ==
    /\ TwoEntries /\ spc = "del_local" /\ sarg = dynlist[1]
    /\ RowOf(dynlist[1]) = {} /\ RowOf(dynlist[2]) # {}
    /\ now < dynlist[2].Dead

\* C6 as stated: with auto-delete on, every remote call succeeding and no
\* Close, an entry of the dynlist whose expiry is reached is eventually taken
\* off the dynlist by autoDelete: again and again no due entry is left, unless
\* autoDelete sleeps on a timer beyond the last instant of the clock.
Due == {e \in Entries(dynlist) : e.Dead <= now}
Parked == spc = "select" /\ oldest > MaxTime
C6_AsStated == []<>(Due = {} \/ Parked)

\* C7 as stated: once populateBanlist has returned nil the managed list holds
\* exactly the Blacklist prefixes the Whitelist does not cover, as permanent
\* rows, and the dynamic rows it held before that the Whitelist does not cover
\* and the Blacklist does not name.
DeviceView == {<<r.net, r.dynamic>> : r \in device}
ExpectedView ==
    {<<b, FALSE>> : b \in {x \in cfgBlack : ~CoveredBy(cfgWhite, x)}}
    \cup {<<r.net, TRUE>> :
            r \in {q \in dev0 : /\ q.dynamic
                                /\ ~CoveredBy(cfgWhite, q.net)
                                /\ q.net \notin cfgBlack}}
C7_AsStated == mpc = "idle" => DeviceView = ExpectedView

\* C8 as stated: once populateBanlist has returned nil no dynlist entry is a
\* Blacklist prefix and none is covered by the Whitelist.
C8_AsStated ==
    mpc = "idle" =>
        \A e \in Entries(dynlist) :
            e.Net \notin cfgBlack /\ ~CoveredBy(cfgWhite, e.Net)

\* C9: in the loop of populateBanlist, the turn for a fetched entry that a
\* Whitelist prefix covers issues the remote remove of that entry's row (gone
\* from the device when the remove succeeds), leaves blackmap alone and appends
\* nothing to the dynlist; and once populateBanlist has returned nil no row the
\* device held before, covered by the Whitelist, is left.
C9_Step ==
    \A out \in DelOutcomes :
        (/\ mpc = "loop" /\ fetched # <<>>
         /\ CoveredBy(cfgWhite, Head(fetched).Net)
         /\ ReconEntryStep(out))
            => LET v == Head(fetched) IN
               /\ rpc'.kind = "remove"
               /\ rpc'.fam = v.Net.fam /\ rpc'.id = v.ID
               /\ rpc'.res = "ok" =>
                    \A r \in device' : ~(r.net.fam = v.Net.fam /\ r.id = v.ID)
               /\ blackmap' = blackmap
               /\ v \notin Entries(dynlist')
               /\ Len(dynlist') <= Len(dynlist)
C9_WhitelistedRemoved ==
    /\ [](mpc = "idle" =>
            \A r \in dev0 : CoveredBy(cfgWhite, r.net) => r \notin device)
    /\ [][C9_Step]_vars

\* The loop has just removed a whitelisted row that the Blacklist names too.
C9_Witness ==
    /\ logged = Log("whitelisted") /\ rpc.kind = "remove" /\ rpc.res = "ok"
    /\ rpc.net \in blackmap /\ CoveredBy(cfgWhite, rpc.net)
    /\ RowAt(rpc.fam, rpc.id) = {} /\ proc = "alive"

\* C10: when a Whitelist prefix is also a Blacklist prefix, construction fails
\* before any remote call: the device is untouched, NewMikrotik returns the
\* conflict (or an earlier connection error) and no instance, and autoDelete
\* is never started.
ConfigConflict == cfgWhite \cap cfgBlack # {}
C10_ConflictFails ==
    ConfigConflict =>
        /\ mpc \in {"new", "failed"}
        /\ mpc = "failed" => (proc = "fatal" /\ mres \in {"conflict", "connect"})
        /\ rpc.kind \notin {"add", "remove"} /\ device = dev0
        /\ spc = "off" /\ hasData = "nil"
        /\ dynlist = <<>>

\* populateBanlist has returned the conflict.
C10_Witness == ConfigConflict /\ mpc = "failed" /\ mres = "conflict"

\* C11: reconciliation convergence.  When the device matches the policy --
\* one permanent row for each Blacklist prefix and no other permanent row, no
\* row the Whitelist covers, no dynamic row of a Blacklist prefix --
\* populateBanlist issues no remote add or remove, leaves the device as it was
\* and, when it returns nil, the dynlist holds exactly the device's dynamic
\* rows, each expiring its remaining timeout from now.
PermanentRows == {r \in dev0 : ~r.dynamic}
DynamicRows == {r \in dev0 : r.dynamic}
MatchesPolicy ==
    /\ ~ConfigConflict
    /\ {r.net : r \in PermanentRows} = cfgBlack
    /\ Cardinality(PermanentRows) = Cardinality(cfgBlack)
    /\ \A r \in dev0 : ~CoveredBy(cfgWhite, r.net)
    /\ \A r \in DynamicRows : r.net \notin cfgBlack
C11_Convergence ==
    MatchesPolicy =>
        /\ rpc.kind \notin {"add", "remove"}
        /\ device = dev0
        /\ mpc = "idle" =>
            /\ Entries(dynlist) =
                    {[Net |-> r.net, Dead |-> now + r.timeout, ID |-> r.id] :
                        r \in DynamicRows}
            /\ Len(dynlist) = Cardinality(DynamicRows)

\* populateBanlist has returned nil on a device that matched: a Blacklist
\* prefix on its permanent row, a dynamic row on the dynlist.
C11_Witness ==
    /\ MatchesPolicy /\ mpc = "idle" /\ cfgBlack # {} /\ dynlist # <<>>
    /\ device = dev0

\* C12: a remote call (the query, a remove or an add) that fails during
\* populateBanlist ends the construction: the process exits without an
\* instance, autoDelete is never started, and no step -- so no further remote
\* call -- follows.
FailedCall == rpc.kind # "none" /\ rpc.res = "err"
C12_FailureIsFatal ==
    /\ [](FailedCall =>
            /\ proc = "fatal" /\ mpc \in {"new", "failed"}
            /\ spc = "off" /\ hasData = "nil")
    /\ [](mpc = "failed" => proc = "fatal")
    /\ [][proc = "alive"]_vars

\* An add of the final loop has failed after an earlier remove went through.
C12_Witness ==
    /\ FailedCall /\ rpc.kind = "add" /\ device # dev0
    /\ mpc = "failed" /\ mres = "remote"

\* C13: a remote add or remove that fails with an error outside the duplicate
\* class leaves the dynlist as it was, is followed by no local insert or pop
\* and by no notification, and its error reaches the caller: AddIP returns it
\* (main and NewMikrotik exit on it), DelIP returns it (autoDelete exits on it).
C13_Step ==
    (rpc'.kind \in {"add", "remove"} /\ rpc'.res = "err") =>
        /\ dynlist' = dynlist /\ dyncap' = dyncap
        /\ mpc' \notin {"add_local", "add_notify"}
        /\ spc' = spc /\ spc' # "del_local"
        /\ oldest' = oldest /\ oldestEntry' = oldestEntry
        /\ hasData' = hasData /\ lock' = lock
        /\ rpc'.kind = "add" => mres' = "remote"
        /\ proc' = "fatal"
C13_FailureLeavesDynlist == [][C13_Step]_vars

\* autoDelete's remove of the head has failed: the head is still there.
C13_Witness ==
    /\ rpc.kind = "remove" /\ rpc.res = "err" /\ spc = "del_lock"
    /\ dynlist # <<>> /\ sarg = dynlist[1] /\ RowOf(sarg) # {}
    /\ proc = "fatal"

\* C14: when main's AddIP reaches the remote add for a prefix the device
\* already lists and the call itself goes through, the device answers with
\* its duplicate error; AddIP returns nil, the process goes on, the device and
\* the dynlist are left alone and autoDelete is not notified.
C14_Step ==
    (/\ mpc = "idle" /\ rpc'.kind = "add" /\ rpc'.res # "err"
     /\ \E r \in device : r.net = rpc'.net) =>
        /\ rpc'.res = "dup"
        /\ mres' = "nil" /\ mpc' = "idle" /\ proc' = proc
        /\ device' = device /\ nextid' = nextid
        /\ dynlist' = dynlist /\ dyncap' = dyncap
        /\ spc' = spc /\ oldest' = oldest /\ oldestEntry' = oldestEntry
        /\ hasData' = hasData /\ lock' = lock
C15_Step ==
    (rpc'.kind = "add" /\ rpc'.res = "noret") =>
        /\ mres' = "missing"
        /\ \E r \in device' \ device : r.net = rpc'.net
        /\ dynlist' = dynlist /\ dyncap' = dyncap
        /\ mpc' \notin {"add_local", "add_notify"}
        /\ spc' = spc /\ oldest' = oldest /\ oldestEntry' = oldestEntry
        /\ hasData' = hasData /\ lock' = lock
        /\ proc' = "fatal"
C15_MissingRet == [][C15_Step]_vars

\* A dynamic add under auto-delete came back without `ret`: the row is on the
\* device and on no dynlist entry.
C15_Witness ==
    /\ rpc.kind = "add" /\ rpc.res = "noret" /\ rpc.duration # 0 /\ autoDelete
    /\ mres = "missing" /\ mpc = "idle"
    /\ \E r \in device : r.net = rpc.net /\ r.dynamic
    /\ \A e \in Entries(dynlist) : e.Net # rpc.net

\* C16: autoDelete never asks the device to remove an entry whose expiry is
\* not reached, and never pops one.  Its wake time is the head's expiry when
\* the dynlist is non-empty and now + 1 hour otherwise; a timer set on an
\* empty dynlist removes nothing when it fires.
C16_Step ==
    /\ (spc = "peek" /\ spc' = "computed")
        => oldest' = IF dynlist = <<>> THEN now + Hour ELSE dynlist[1].Dead
    /\ (spc = "del_lock" /\ rpc'.kind = "remove") => sarg.Dead <= now
    /\ spc = "del_local"
        => \A e \in Entries(dynlist) \ Entries(dynlist') : e.Dead <= now
    /\ (SchedTimer /\ oldestEntry.nil)
        => /\ spc' = "top" /\ rpc' = NoRpc
           /\ device' = device /\ dynlist' = dynlist
C16_NeverEarly == [][C16_Step]_vars

\* autoDelete has removed the due head's row while the entry behind it is not
\* due yet.
C16_Witness ==
    /\ spc = "del_local" /\ rpc.kind = "remove" /\ rpc.res = "ok"
    /\ sarg.Dead = now /\ Len(dynlist) = 2 /\ dynlist[2].Dead > now
    /\ RowOf(dynlist[2]) # {}

\* C17 as stated: when DelIP's local step runs for autoDelete, the entry it
\* was called with is the head of the dynlist or is not on the dynlist.
C17_AsStated ==
    (spc = "del_local" /\ dynlist # <<>>)
        => (sarg = dynlist[1] \/ sarg \notin Entries(dynlist))

\* C18 as stated: with auto-delete on and every remote call succeeding, a
\* dropped notification costs no correctness; in particular no timed row is
\* left on the device forever.  A timed row that no dynlist entry names (same
\* table, same id) is never removed by the program, so while the program runs
\* and no AddIP is under way there is no such row.
Orphans ==
    {r \in device : /\ r.dynamic
                    /\ \A e \in Entries(dynlist) :
                          ~(e.Net.fam = r.net.fam /\ e.ID = r.id)}
C18_AsStated == (Alive /\ mpc = "idle") => Orphans = {}

\* C19: AddIP never waits for autoDelete.  Past its remote call AddIP can
\* always take its next step -- the insert, then the non-blocking send --
\* wherever autoDelete is, except that the insert lets a peek autoDelete has
\* begun (lines 229-240, which wait for nothing) run to its RUnlock; the send
\* step returns nil and releases mt.lock, and when autoDelete is not
\* receiving the notification is dropped with a log line and autoDelete is
\* left where it was.
C19_Step ==
    (mpc = "add_notify" /\ mpc' # mpc) =>
        /\ mpc' = "idle" /\ mres' = "nil" /\ lock' = "none" /\ proc' = proc
        /\ spc # "select"
            => /\ logged' = Log("hasData full")
               /\ spc' = spc /\ oldest' = oldest /\ oldestEntry' = oldestEntry
C19_NeverBlocks ==
    /\ []((Alive /\ mpc = "add_local")
            => \/ ENABLED MainAddLocal
               \/ spc = "peek" /\ ENABLED SchedCompute)
    /\ []((Alive /\ mpc = "add_notify") => ENABLED MainAddNotify)
    /\ [][C19_Step]_vars

\* AddIP has returned, its notification dropped, while autoDelete is blocked
\* in DelIP on the lock AddIP held.
C19_Witness ==
    /\ logged = Log("hasData full") /\ spc = "del_lock"
    /\ mpc = "idle" /\ mres = "nil" /\ lock = "none" /\ proc = "alive"

\* C20: when a notification takes autoDelete out of its select, that step
\* makes no remote call and changes neither the device nor the dynlist nor
\* the process; autoDelete is back at the top of its loop, and its next step
\* sets the wake time from the dynlist as it is then: the head's expiry, or
\* now + 1 hour when it is empty.
C20_Step ==
    /\ (spc = "select" /\ mpc = "add_notify" /\ mpc' = "idle")
        => /\ spc' = "top" /\ logged' = Log("received")
           /\ rpc' = NoRpc /\ device' = device /\ nextid' = nextid
           /\ dynlist' = dynlist /\ dyncap' = dyncap
           /\ sarg' = sarg /\ proc' = proc /\ hasData' = hasData
    /\ (spc = "top" /\ spc' # spc)
        => /\ spc' = "peek" /\ rpc' = NoRpc
           /\ dynlist' = dynlist /\ device' = device
    /\ (spc = "peek" /\ spc' # spc)
        => /\ spc' = "computed" /\ rpc' = NoRpc
           /\ dynlist' = dynlist /\ device' = device
           /\ IF dynlist = <<>>
              THEN oldest' = now + Hour /\ oldestEntry'.nil
              ELSE /\ oldest' = dynlist[1].Dead
                   /\ ~oldestEntry'.nil /\ oldestEntry'.val = dynlist[1]
C20_NotificationWake ==
    /\ [](logged = Log("received") => (spc = "top" /\ rpc = NoRpc))
    /\ [][C20_Step]_vars

\* A notification has just woken autoDelete; the entry it announces sits in
\* front of the one the timer was set for, and neither is due.
C20_Witness ==
    /\ logged = Log("received") /\ spc = "top" /\ mpc = "idle"
    /\ Len(dynlist) = 2 /\ dynlist[1].Dead < dynlist[2].Dead
    /\ now < dynlist[1].Dead
    /\ RowOf(dynlist[1]) # {} /\ RowOf(dynlist[2]) # {}

\* C21 as stated: with auto-delete on, once Close has closed the channel
\* autoDelete eventually returns.
C21_AsStated == (hasData = "closed") ~> (spc = "stopped")

\* C24: with AutoDelete false autoDelete is never started and its channel
\* never made; the only remote removes are those of populateBanlist; and the
\* dynlist changes only where populateBanlist appends a timed row it found:
\* AddIP and DelIP, whoever calls them, leave it alone.
C24_Step ==
    ~autoDelete =>
        /\ rpc'.kind = "remove" => mpc = "loop"
        /\ rpc'.kind \in {"add", "remove"} => dynlist' = dynlist
        /\ dynlist' # dynlist
            => /\ mpc = "loop" /\ rpc' = NoRpc /\ fetched # <<>>
               /\ dynlist' = Append(dynlist, Head(fetched))
C29_Step ==
    (mpc = "loop" /\ fetched = <<>> /\ blackmap # {}) =>
        /\ rpc'.kind = "add" /\ rpc'.duration = 0 /\ rpc'.net \in blackmap
        /\ OnBlacklist(rpc'.net)
        /\ rpc'.res = "ok" =>
            \E r \in device' \ device : r.net = rpc'.net /\ ~r.dynamic
        /\ dynlist' = dynlist /\ dyncap' = dyncap
        /\ mpc' \notin {"add_local", "add_notify"}
        /\ spc' = spc /\ hasData' = hasData
        /\ oldest' = oldest /\ oldestEntry' = oldestEntry
C29_PermanentAdd == [][C29_Step]_vars

\* A permanent add has gone through for a prefix that a dynlist entry
\* contains as well.
C29_Witness ==
    /\ rpc.kind = "add" /\ rpc.duration = 0 /\ rpc.res = "ok"
    /\ OnBlacklist(rpc.net) /\ OnDynlist(rpc.net)
    /\ \E r \in device : r.net = rpc.net /\ ~r.dynamic

\* C30: a dynamic AddIP of a prefix whose address lies in a Blacklist prefix
\* or in the prefix of an entry now on the dynlist makes no remote call,
\* returns nil and leaves the device and the dynlist as they are.
HoldsAddress(w, p) ==
    /\ w.fam = p.fam
    /\ \A i \in 1..w.bits : w.ip[i] = p.ip[i]
Banned(p) ==
    \/ \E b \in cfgBlack : HoldsAddress(b, p)
    \/ \E e \in Entries(dynlist) : HoldsAddress(e.Net, p)
C30_Step ==
    \A ip \in {n \in Nets : Banned(n)} :
        \A duration \in Durations, out \in AddOutcomes :
            AddIPCall(ip, duration, out)
                => /\ rpc' = NoRpc /\ mres' = "nil"
                   /\ device' = device /\ nextid' = nextid
                   /\ dynlist' = dynlist /\ dyncap' = dyncap
                   /\ proc' = proc /\ mpc' = "idle" /\ lock' = lock
                   /\ logged' \in {Log("whitelist"), Log("blacklist"), Log("dynlist")}
C30_BannedAddIsNoop == [][C30_Step]_vars

\* AddIP has just refused a prefix for the blacklist, whose one prefix holds
\* the addresses of two of the prefixes AddIP is called with.
C30_Witness ==
    /\ logged = Log("blacklist") /\ rpc = NoRpc /\ mres = "nil"
    /\ mpc = "idle" /\ proc = "alive"
    /\ NetA \in cfgBlack /\ NetC \notin cfgBlack /\ cfgWhite = {}
    /\ \A r \in device : r.net # NetC

\* C22 as stated: with auto-delete on and every remote call succeeding, when
\* the startup distribution is through, the device's dynlist holds every
\* prefix that was on some device's dynlist after construction, except those
\* whose address lies in a prefix of the device's Whitelist, of its Blacklist
\* or of another entry of its dynlist.
C22_AsStated ==
    (dpc = "done" /\ Alive) =>
        \A e \in mergeIP :
            \/ \E d \in Entries(dynlist) : d.Net = e.Net
            \/ \E w \in cfgWhite : HoldsAddress(w, e.Net)
            \/ \E b \in cfgBlack : HoldsAddress(b, e.Net)
            \/ \E d \in Entries(dynlist) : d.Net # e.Net /\ HoldsAddress(d.Net, e.Net)

\* C23 as stated: once the device is constructed, a remote add or remove
\* that failed has ended the process: its caller exited on the error AddIP or
\* DelIP returned.
C23_AsStated ==
    (rpc.kind \in {"add", "remove"} /\ rpc.res = "err" /\ mpc = "idle")
        => proc = "fatal"


\* ================================================================ pure functions
\* The functions below read nothing of the engine's state.  Each is followed
\* on its own: the engine stands at its first instant with an empty
\* configuration, `call` holds the function's argument, and one step applies
\* the function and stores what it returns.
engineVars == <<autoDelete, cfgWhite, cfgBlack, device, dev0, nextid, now, proc,
                mpc, mres, whitelist, blacklist, blackmap, fetched, dynlist,
                dyncap, lock, rw, hasData, spc, oldest, oldestEntry, sarg, marg,
                rpc, logged, mergeIP, ips, todo, dpc>>

NotStarted == InitWith(0, 0) /\ ~autoDelete /\ SingleDevice

\* A text is a sequence of one-character strings.
DigitChars == <<"0", "1", "2", "3", "4", "5", "6", "7", "8", "9">>
Digits == {DigitChars[i] : i \in 1..10}
DigitOf(c) == (CHOOSE i \in 1..10 : DigitChars[i] = c) - 1

\* The value of a run of decimal digits (strconv.Atoi on \d+).
RECURSIVE Atoi(_)
Atoi(t) ==
    IF t = <<>> THEN 0
    ELSE 10 * Atoi(SubSeq(t, 1, Len(t) - 1)) + DigitOf(t[Len(t)])

\* All texts of at most n characters over the alphabet a.
TextsUpTo(a, n) == UNION {[1..k -> a] : k \in 0..n}

\* list without its i-th element.
Without(list, i) == SubSeq(list, 1, i - 1) \o SubSeq(list, i + 1, Len(list))

\* C31: a dynamic AddIP (duration # 0, auto-delete on) that passes the checks
\* and whose remote add succeeds goes on to its local section; that section
\* inserts exactly one entry, made of the prefix, now + duration and the row
\* id the device returned, and leaves every other entry as it was; the step
\* after it is the notification attempt, delivered or dropped, which leaves
\* the dynlist alone.
C31_Step ==
    /\ (mpc = "idle" /\ rpc'.kind = "add" /\ rpc'.res = "ok" /\ rpc'.duration # 0
            /\ autoDelete)
        => /\ mpc' = "add_local" /\ dynlist' = dynlist
           /\ marg'.ip = rpc'.net /\ marg'.duration = rpc'.duration
           /\ \E r \in device' \ device : r.id = marg'.id /\ r.net = marg'.ip
    /\ (mpc = "add_local" /\ mpc' # mpc)
        => /\ mpc' = "add_notify"
           /\ Len(dynlist') = Len(dynlist) + 1
           /\ \E i \in 1..Len(dynlist') :
                /\ dynlist'[i] = [Net |-> marg.ip, Dead |-> now + marg.duration,
                                  ID |-> marg.id]
                /\ Without(dynlist', i) = dynlist
    /\ (mpc = "add_notify" /\ mpc' # mpc)
        => /\ mpc' = "idle" /\ dynlist' = dynlist
           /\ logged' \in {Log("received"), Log("hasData full")}
    /\ (mpc' = "add_local" /\ mpc # mpc')
        => mpc = "idle" /\ rpc'.kind = "add" /\ rpc'.res = "ok"
    /\ mpc \in {"idle", "add_notify"} => Len(dynlist') <= Len(dynlist)
C31_DynamicInsert == [][C31_Step]_vars

\* AddIP has just inserted its entry next to an older one and is about to
\* notify autoDelete.
C31_Witness ==
    /\ mpc = "add_notify" /\ Len(dynlist) = 2
    /\ \E i \in 1..2 : /\ dynlist[i].ID = marg.id /\ dynlist[i].Net = marg.ip
                        /\ dynlist[i].Dead = now + marg.duration
                        /\ RowOf(dynlist[i]) # {}

\* The step in which a DelIP(e) whose remote remove succeeded reaches lines
\* 367-375: autoDelete's call (e is sarg), or a call of populateBanlist on the
\* row it is looking at.
DelOfSched == spc = "del_local" /\ spc' # spc
DelOfRecon == mpc = "loop" /\ rpc'.kind = "remove" /\ rpc'.res = "ok"

\* C32 as stated: a successful DelIP(e) removes the head of the dynlist when
\* the head's row id equals e's and leaves the dynlist unchanged otherwise.
C32_Popped(e) ==
    IF dynlist # <<>> /\ dynlist[1].ID = e.ID THEN Tail(dynlist) ELSE dynlist
C32_AsStated ==
    [][/\ DelOfSched => dynlist' = C32_Popped(sarg)
       /\ DelOfRecon => dynlist' = C32_Popped(Head(fetched))]_vars

\* C32, amended: with auto-delete on, a successful DelIP(e) removes exactly
\* the head when the head's row id equals e's and leaves the dynlist unchanged
\* otherwise; with auto-delete off it leaves the dynlist unchanged whatever
\* the head's row id is; a call that finds the dynlist empty removes nothing.
\* No step removes anything but the head, and only a DelIP removes it.
C32_Step ==
    /\ DelOfSched
        => /\ autoDelete /\ dynlist # <<>>
           /\ dynlist' = IF dynlist[1].ID = sarg.ID THEN Tail(dynlist) ELSE dynlist
    /\ DelOfRecon
        => dynlist' = IF autoDelete THEN C32_Popped(Head(fetched)) ELSE dynlist
    /\ Len(dynlist') < Len(dynlist)
        => /\ dynlist' = Tail(dynlist)
           /\ DelOfSched \/ DelOfRecon
C32_PopsHeadOnly == [][C32_Step]_vars

\* autoDelete's DelIP has removed the head's row and is about to pop the head
\* in front of another entry.
C32_Witness ==
    /\ spc = "del_local" /\ Len(dynlist) = 2 /\ dynlist[1] = sarg
    /\ RowOf(sarg) = {} /\ RowOf(dynlist[2]) # {}

\* C33: autoDelete is inside the list lock only in read mode and only at its
\* peek of the head (lines 229-240): not while it sits in the select, not
\* when it calls DelIP, which takes the locks it needs itself.  A writer that
\* has reached its mt.Lock() while autoDelete waits in the select, or waits
\* for the mutation lock on its way into DelIP, goes through.
C33_ReadLockOnlyAtPeek ==
    /\ rw \subseteq {"sched"}
    /\ "sched" \in rw <=> spc = "peek"
    /\ (Alive /\ mpc = "add_local" /\ spc \in {"select", "del_lock"})
        => ENABLED MainAddLocal

\* AddIP stands at its mt.Lock() while autoDelete waits in the select with a
\* timer set on the head.
C33_Witness ==
    /\ spc = "select" /\ mpc = "add_local" /\ rw = {}
    /\ dynlist # <<>> /\ ~oldestEntry.nil

\* C34: autoDelete takes no step before populateBanlist has returned nil.
\* While NewMikrotik is at work, and after it failed, there is no goroutine,
\* no channel, no reader and no wake time; once autoDelete exists both loops
\* of populateBanlist are over.  The managed list is fetched only by the
\* constructor's first step, and an instance that left populateBanlist never
\* enters it again.
C34_Step ==
    /\ mpc \notin {"new", "loop"} => mpc' \notin {"new", "loop"}
    /\ mpc = "loop" => mpc' # "new"
    /\ (rpc'.kind = "getall" /\ rpc' # rpc) => mpc = "new"
    /\ (spc = "off" /\ spc' # "off")
        => mpc = "loop" /\ mpc' = "idle" /\ mres' = "nil" /\ spc' = "top"
C34_ReconciliationFirst ==
    /\ [](mpc \in {"new", "loop", "failed"}
            => /\ spc = "off" /\ hasData = "nil" /\ rw = {}
               /\ oldestEntry = NilPtr /\ sarg = NoEntry)
    /\ [](spc # "off"
            => autoDelete /\ mpc # "failed" /\ fetched = <<>> /\ blackmap = {})
    /\ [][C34_Step]_vars

\* autoDelete is at its first peek, on a device reconciliation has changed.
C34_Witness ==
    /\ spc = "peek" /\ mpc = "idle" /\ oldest = 0
    /\ dev0 # {} /\ device # dev0

\* C35 as stated: no DelIP whose remote remove succeeded with auto-delete on
\* fails at run time on the head of an empty dynlist, neither a call of
\* populateBanlist nor a call of autoDelete.
C35_AsStated == ~(proc = "panic" /\ (mpc = "loop" \/ spc = "del_local"))

\* C36 as stated: whenever nobody holds the mutation lock, every dynlist
\* entry's row id is the id of a row of its family on the device.
C36_AsStated ==
    (Alive /\ LockFree) => \A e \in Entries(dynlist) : RowOf(e) # {}

\* C37 as stated: on an instance constructed with auto-delete off, which has
\* no channel and no goroutine, Close does not fail at run time.
C37_AsStated == (~autoDelete /\ mpc = "idle") => proc # "panic"

\* C38: no deadlock.  mt.lock is held exactly by an AddIP or DelIP between
\* its remote call and its return, and the list lock is written only under
\* it; a goroutine inside the read lock asks for no lock and leaves by its
\* next step, and the mutation lock is never taken from inside the read
\* lock.  Whoever waits -- AddIP or DelIP for the readers to leave, DelIP for
\* AddIP's mutation lock -- waits for a goroutine whose next step is enabled.
C38_Leaves ==
    /\ "sched" \in rw => ENABLED SchedCompute
    /\ "dump" \in rw => ENABLED GetIPsReturn
C38_MainMoves ==
    /\ mpc = "add_local" => (ENABLED MainAddLocal \/ (rw # {} /\ C38_Leaves))
    /\ mpc = "add_notify" => ENABLED MainAddNotify
C38_Inv ==
    Alive =>
        /\ lock = "main" <=> mpc \in {"add_local", "add_notify"}
        /\ lock = "sched" <=> spc = "del_local"
        /\ "sched" \in rw <=> spc = "peek"
        /\ C38_Leaves /\ C38_MainMoves
        /\ spc = "top" => ENABLED SchedRLock
        /\ spc = "computed" => ENABLED SchedSelect
        /\ spc = "del_lock"
            => (ENABLED SchedDelRemote \/ (lock = "main" /\ C38_MainMoves))
        /\ spc = "del_local"
            => (ENABLED SchedDelLocal \/ (rw = {"dump"} /\ C38_Leaves))
C38_Step ==
    /\ (lock = "none" /\ lock' = "sched") => "sched" \notin rw
    /\ (dynlist' # dynlist /\ mpc \notin {"new", "loop"})
        => lock \in {"main", "sched"} /\ rw = {}
C38_NoDeadlock == []C38_Inv /\ [][C38_Step]_vars

\* AddIP waits at its mt.Lock() for a GetIPs in progress while autoDelete
\* waits in DelIP for the mutation lock AddIP holds.
C38_Witness ==
    /\ Alive /\ mpc = "add_local" /\ lock = "main"
    /\ spc = "del_lock" /\ rw = {"dump"}

\* C39: every dynlist entry has an expiry, and so has the entry autoDelete
\* hands to DelIP; a row autoDelete's DelIP takes off the device is a dynamic
\* row, and a step that puts an entry on the dynlist puts a dynamic one.
C39_Step ==
    /\ \A e \in Entries(dynlist') \ Entries(dynlist) : e.Dead # ZeroTime
    /\ (spc = "del_lock" /\ rpc'.kind = "remove")
        => \A r \in device \ device' : r.dynamic
C39_OnlyDynamic ==
    /\ [](\A e \in Entries(dynlist) : e.Dead # ZeroTime)
    /\ [](spc \in {"del_lock", "del_local"} => sarg.Dead # ZeroTime)
    /\ [](~oldestEntry.nil => oldestEntry.val.Dead # ZeroTime)
    /\ [][C39_Step]_vars

\* autoDelete's DelIP has removed a dynamic row from a device that carries a
\* permanent row as well.
C39_Witness ==
    /\ spc = "del_local" /\ rpc.kind = "remove" /\ rpc.res = "ok"
    /\ sarg.Dead # ZeroTime /\ RowOf(sarg) = {}
    /\ \E r \in device : ~r.dynamic

\* C40 as stated: an entry that a DelIP(e) takes off the dynlist is e itself,
\* with e's prefix and family.
C40_AsStated ==
    [][/\ DelOfSched
          => \A d \in Entries(dynlist) \ Entries(dynlist') : d.Net = sarg.Net
       /\ DelOfRecon
          => \A d \in Entries(dynlist) \ Entries(dynlist') :
                d.Net = Head(fetched).Net]_vars

\* --------------------------------------------------- regTimeout, toDuration
\* Longest timeout text the device is taken to report.
MaxTimeoutLen == 4

\* The suffix letters of regTimeout, in the order of its groups.
Units == <<"w", "d", "h", "m", "s">>
\* time.Duration of one week, day, hour, minute and second, in seconds.
UnitSeconds == <<604800, 86400, 3600, 60, 1>>

TimeoutChars == {"0", "1", "w", "d", "h", "m", "s", "x"}

\* \d+ at position i: the number of digits that follow each other from i on.
RECURSIVE DigitRun(_, _)
DigitRun(t, i) ==
    IF i <= Len(t) /\ t[i] \in Digits THEN 1 + DigitRun(t, i + 1) ELSE 0

\* (?:(\d+)u)? at position i: the digits captured, "" when the group does not
\* take part.  \d+ is greedy and a shorter run is followed by a digit, never
\* by the letter, so the group matches exactly when the whole run is followed
\* by u.
Group(t, i, u) ==
    LET n == DigitRun(t, i)
    IN  IF n > 0 /\ i + n <= Len(t) /\ t[i + n] = u
        THEN SubSeq(t, i, i + n - 1)
        ELSE <<>>

\* The groups g..5 of the match that starts matching group g at position i.
RECURSIVE Submatch(_, _, _)
Submatch(t, i, g) ==
    IF g > Len(Units) THEN <<>>
    ELSE LET m == Group(t, i, Units[g])
         IN  <<m>> \o Submatch(t, IF m = <<>> THEN i ELSE i + Len(m) + 1, g + 1)

\* regTimeout.FindStringSubmatch(timeout)[1:]: every group is optional, so the
\* expression matches (possibly the empty text) at the first position of any
\* timeout, and the leftmost match is the one reported.
regTimeout(timeout) == Submatch(timeout, 1, 1)

\* The characters of the timeout the match covers (len(res[0])).
MatchLen(timeout) ==
    LET res == regTimeout(timeout)
        len[g \in 0..Len(Units)] ==
            IF g = 0 THEN 0
            ELSE len[g - 1] + (IF res[g] = <<>> THEN 0 ELSE Len(res[g]) + 1)
    IN  len[Len(Units)]

\* The row of an address-list as toDuration reads it: dict["dynamic"] and
\* dict["timeout"] (ok is false for a key the row lacks).
Dicts ==
    {[dynamic |-> d, ok |-> TRUE, timeout |-> t] :
        d \in BOOLEAN, t \in TextsUpTo(TimeoutChars, MaxTimeoutLen)}
    \cup {[dynamic |-> d, ok |-> FALSE, timeout |-> <<>>] : d \in BOOLEAN}

\* toDuration (lines 269-305) on the text of a row: the time it returns, or the
\* panic for a dynamic row without timeout.  It has no other result: whatever
\* regTimeout leaves unmatched is not looked at.  (toDuration(row) above is
\* the same function on a row whose timeout is already a number.)
toDurationDict(dict) ==
    IF dict.dynamic
    THEN IF dict.ok
         THEN LET res == regTimeout(dict.timeout)
                  sum[g \in 0..Len(Units)] ==
                      IF g = 0 THEN 0
                      ELSE sum[g - 1] +
                           (IF res[g] # <<>> THEN Atoi(res[g]) * UnitSeconds[g] ELSE 0)
              IN  [out |-> "time", t |-> now + sum[Len(Units)]]
         ELSE [out |-> "panic", t |-> ZeroTime]
    ELSE [out |-> "time", t |-> ZeroTime]

InitTimeout ==
    /\ NotStarted
    /\ call \in {[fn |-> "toDuration", done |-> FALSE, arg |-> d] : d \in Dicts}

ToDurationCall ==
    /\ call.fn = "toDuration" /\ ~call.done
    /\ call' = [fn |-> "toDuration", done |-> TRUE, arg |-> call.arg,
                res |-> toDurationDict(call.arg)]
    /\ UNCHANGED engineVars

SpecTimeout == InitTimeout /\ [][ToDurationCall]_vars

\* C25: the duration parsed from a device timeout is the sum of its present
\* components, each taken by its suffix letter ("10d" is ten days), and a
\* timeout with no recognizable component ("10", "10x") or with components
\* out of the order w-d-h-m-s is a parse error: toDuration returns no time
\* for it.
C25_AsStated ==
    (call.fn = "toDuration" /\ call.done /\ call.arg.dynamic /\ call.arg.ok)
    => LET t == call.arg.timeout
       IN  /\ (t = <<"1", "0", "d">>
                => call.res = [out |-> "time", t |-> now + 10 * UnitSeconds[2]])
           /\ (MatchLen(t) < Len(t) \/ t = <<>>) => call.res.out # "time"

\* ------------------------------------------- Duration.String, UnmarshalText
\* Duration wraps time.Duration: String is time.Duration.String and
\* UnmarshalText is time.ParseDuration.  The model counts a duration in
\* milliseconds; the units below the millisecond are left out, and so is the
\* '.' in the texts handed to UnmarshalText directly.

\* Most hours of a formatted duration, and the longest text parsed.
MaxHours == 2
MaxDurationLen == 4

\* A unitMap that knows the day as well.
unitMapWithDays(u) ==
    CASE u = <<"m", "s">> -> 1 [] u = <<"s">> -> 1000 [] u = <<"m">> -> 60000
      [] u = <<"h">> -> 3600000 [] u = <<"d">> -> 86400000 [] OTHER -> 0
\* time's unitMap[u] from the millisecond up, 0 standing for a unit the map
\* does not hold.
unitMap(u) ==
    CASE u = <<"m", "s">> -> 1 [] u = <<"s">> -> 1000 [] u = <<"m">> -> 60000
      [] u = <<"h">> -> 3600000 [] OTHER -> 0

\* fmtInt: the decimal digits of n.
RECURSIVE Itoa(_)
Itoa(n) ==
    IF n < 10 THEN <<DigitChars[n + 1]>>
    ELSE Itoa(n \div 10) \o <<DigitChars[(n % 10) + 1]>>

\* fmtFrac: the fraction of a second, f milliseconds, without trailing zeros
\* and without the point when there is none.
fmtFrac(f) ==
    LET d3 == <<DigitChars[(f \div 100) + 1], DigitChars[((f \div 10) % 10) + 1],
                DigitChars[(f % 10) + 1]>>
    IN  IF f = 0 THEN <<>>
        ELSE <<".">> \o (IF f % 10 # 0 THEN d3
                         ELSE IF (f \div 10) % 10 # 0 THEN SubSeq(d3, 1, 2)
                         ELSE SubSeq(d3, 1, 1))

\* time.Duration.String: "0s" for zero, milliseconds below one second, else
\* [h"h"][m"m"]s"s" where the minutes appear once the duration reaches a
\* minute and the hours once it reaches an hour; "-" leads a negative one.
String(d) ==
    LET u == IF d < 0 THEN 0 - d ELSE d
        sec == u \div 1000
        body ==
            IF u = 0 THEN <<"0", "s">>
            ELSE IF u < 1000 THEN Itoa(u) \o <<"m", "s">>
            ELSE (IF sec >= 3600 THEN Itoa(sec \div 3600) \o <<"h">> ELSE <<>>)
                 \o (IF sec >= 60 THEN Itoa((sec \div 60) % 60) \o <<"m">> ELSE <<>>)
                 \o Itoa(sec % 60) \o fmtFrac(u % 1000) \o <<"s">>
    IN  (IF d < 0 THEN <<"-">> ELSE <<>>) \o body

ParseError == [err |-> TRUE, d |-> 0]

\* The unit of a term: the characters up to the next digit or point.
RECURSIVE UnitRun(_, _)
UnitRun(t, i) ==
    IF i <= Len(t) /\ t[i] # "." /\ t[i] \notin Digits THEN 1 + UnitRun(t, i + 1) ELSE 0

RECURSIVE Pow10(_)
Pow10(n) == IF n = 0 THEN 1 ELSE 10 * Pow10(n - 1)

\* The loop of time.ParseDuration over the terms [0-9]*(\.[0-9]*)?[a-z]+.
RECURSIVE ParseTerms(_)
ParseTerms(t) ==
    IF t = <<>> THEN [err |-> FALSE, d |-> 0]
    ELSE IF ~(t[1] = "." \/ t[1] \in Digits) THEN ParseError
    ELSE LET n == DigitRun(t, 1)
             v == Atoi(SubSeq(t, 1, n))
             t1 == SubSeq(t, n + 1, Len(t))
             dot == t1 # <<>> /\ t1[1] = "."
             t2 == IF dot THEN Tail(t1) ELSE t1
             fn == IF dot THEN DigitRun(t2, 1) ELSE 0
             f == Atoi(SubSeq(t2, 1, fn))
             t3 == SubSeq(t2, fn + 1, Len(t2))
             i == UnitRun(t3, 1)
             unit == unitMap(SubSeq(t3, 1, i))
         IN  IF n = 0 /\ fn = 0 THEN ParseError      \* no digits at all
             ELSE IF i = 0 THEN ParseError           \* missing unit
             ELSE IF unit = 0 THEN ParseError        \* unknown unit
             ELSE LET rest == ParseTerms(SubSeq(t3, i + 1, Len(t3)))
                  IN  IF rest.err THEN ParseError
                      ELSE [err |-> FALSE,
                            d |-> v * unit + ((f * unit) \div Pow10(fn)) + rest.d]

\* time.ParseDuration: [-+]?, the lone "0", then at least one term.
ParseDuration(t) ==
    LET signed == t # <<>> /\ t[1] \in {"-", "+"}
        neg == signed /\ t[1] = "-"
        t0 == IF signed THEN Tail(t) ELSE t
        r == ParseTerms(t0)
    IN  IF t0 = <<"0">> THEN [err |-> FALSE, d |-> 0]
        ELSE IF t0 = <<>> THEN ParseError
        ELSE IF r.err THEN ParseError
        ELSE [err |-> FALSE, d |-> IF neg THEN 0 - r.d ELSE r.d]

\* Duration.UnmarshalText (duration.go, lines 11-16): err, and the value
\* stored in *d.
UnmarshalText(data) == ParseDuration(data)

\* The durations formatted and parsed back, in milliseconds.
DurationValues ==
    LET pos == {((h * 60 + m) * 60 + sec) * 1000 + ms :
                    h \in 0..MaxHours, m \in {0, 1, 30, 59},
                    sec \in {0, 1, 40, 59}, ms \in {0, 5, 500, 999}}
    IN  pos \cup {0 - d : d \in pos}

DurationChars == {"0", "1", "h", "m", "s", "d", "-", "+"}

InitDuration ==
    /\ NotStarted
    /\ call \in {[fn |-> "String", done |-> FALSE, arg |-> d] : d \in DurationValues}
         \cup {[fn |-> "UnmarshalText", done |-> FALSE, arg |-> t] :
                  t \in TextsUpTo(DurationChars, MaxDurationLen)}

\* d.String(), then UnmarshalText on the text.
StringCall ==
    /\ call.fn = "String" /\ ~call.done
    /\ call' = [fn |-> "String", done |-> TRUE, arg |-> call.arg,
                text |-> String(call.arg),
                res |-> UnmarshalText(String(call.arg))]
    /\ UNCHANGED engineVars

UnmarshalTextCall ==
    /\ call.fn = "UnmarshalText" /\ ~call.done
    /\ call' = [fn |-> "UnmarshalText", done |-> TRUE, arg |-> call.arg,
                res |-> UnmarshalText(call.arg)]
    /\ UNCHANGED engineVars

SpecDuration == InitDuration /\ [][StringCall \/ UnmarshalTextCall]_vars

\* A text in which no character belongs to the name of a supported unit.
WithoutUnit(t) == \A i \in 1..Len(t) : t[i] \notin {"h", "m", "s"}
\* The zero, which time.ParseDuration takes without a unit.
ZeroText(t) == t \in {<<"0">>, <<"+", "0">>, <<"-", "0">>}

RoundTrip ==
    (call.fn = "String" /\ call.done) => call.res = [err |-> FALSE, d |-> call.arg]

\* C26 as stated: parsing the text String gives for a duration returns the
\* duration, and UnmarshalText rejects every text without a supported unit.
C26_AsStated ==
    /\ RoundTrip
    /\ (call.fn = "UnmarshalText" /\ call.done /\ WithoutUnit(call.arg))
       => call.res.err

\* C26: parsing the text String gives for a duration returns the duration,
\* and UnmarshalText rejects every text without a supported unit ("10",
\* "10d") other than a zero ("0", "+0", "-0"), which it takes as 0.
C26_RoundTrip ==
    /\ RoundTrip
    /\ (call.fn = "UnmarshalText" /\ call.done /\ WithoutUnit(call.arg))
       => IF ZeroText(call.arg) THEN call.res = [err |-> FALSE, d |-> 0]
          ELSE call.res.err

\* 1h30m0s has been formatted as "1h30m0s" and parsed back.
C26_Witness ==
    /\ call.fn = "String" /\ call.done /\ call.arg = 5400000
    /\ call.text = <<"1", "h", "3", "0", "m", "0", "s">>
    /\ call.res = [err |-> FALSE, d |-> 5400000]

\* ------------------------------------------------------------------ parseCIDR
\* An address is a sequence of bits.  On the scale of this section an IPv4
\* address has V4Bits bits and an IPv6 address V6Bits (8*net.IPv4len and
\* 8*net.IPv6len); the IPv6 addresses that start with Mapped are the
\* IPv4-mapped ones (::ffff:a.b.c.d), whose remaining bits are the IPv4
\* address.  net.ParseIP returns the 16-byte form for either notation.
V4Bits == 2
V6Bits == 3
Mapped == <<1>>
\* Longest text after the first "/".
MaxMaskLen == 2

\* A nil net.IP is the empty slice; a nil *net.IPNet is NilNet.
Nil == <<>>
NilNet == [nil |-> TRUE, IP |-> <<>>, Mask |-> <<>>]

\* The address part of the inputs, each one piece of the text (no "/" in it,
\* nothing appended to it): texts net.ParseIP takes, in dotted and in colon
\* notation, and two it refuses (as "256.168.10.0" and "fe80:g123::").
AddrTexts == {"0.1", "1.1", "::0", "::3", "::ffff:0.1", "256.1", "::g"}
\* The notation of an address text, whether it is an address, and its bits.
Addr(a) ==
    CASE a = "0.1" -> [form |-> "dotted", ok |-> TRUE, bits |-> <<0, 1>>]
      [] a = "1.1" -> [form |-> "dotted", ok |-> TRUE, bits |-> <<1, 1>>]
      [] a = "::0" -> [form |-> "colon", ok |-> TRUE, bits |-> <<0, 0, 0>>]
      [] a = "::3" -> [form |-> "colon", ok |-> TRUE, bits |-> <<0, 1, 1>>]
      [] a = "::ffff:0.1" -> [form |-> "colon", ok |-> TRUE, bits |-> <<1, 0, 1>>]
      [] a = "256.1" -> [form |-> "dotted", ok |-> FALSE, bits |-> <<>>]
      [] OTHER -> [form |-> "colon", ok |-> FALSE, bits |-> <<>>]

MaskChars == {"0", "1", "2", "3", "4", "-", "+", "x", "/"}

\* The inputs: an address text alone, or followed by "/" and more.
CIDRTexts ==
    {<<a>> : a \in AddrTexts}
    \cup {<<a, "/">> \o m : a \in AddrTexts, m \in TextsUpTo(MaskChars, MaxMaskLen)}

\* strings.Index(s, "/"), counted from 1; 0 when there is none.
Index(t) ==
    IF \E i \in 1..Len(t) : t[i] = "/"
    THEN CHOOSE i \in 1..Len(t) : t[i] = "/" /\ \A j \in 1..(i - 1) : t[j] # "/"
    ELSE 0

\* net.ParseIP: the 16-byte address, Nil for a text that is no address.
ParseIP(t) ==
    IF Len(t) = 1 /\ t[1] \in AddrTexts /\ Addr(t[1]).ok
    THEN IF Addr(t[1]).form = "dotted" THEN Mapped \o Addr(t[1]).bits
         ELSE Addr(t[1]).bits
    ELSE Nil

\* ip.To4(): a 4-byte address itself, the IPv4 address of an IPv4-mapped
\* 16-byte one, Nil otherwise.
To4(ip) ==
    IF Len(ip) = V4Bits THEN ip
    ELSE IF Len(ip) = V6Bits /\ SubSeq(ip, 1, Len(Mapped)) = Mapped
    THEN SubSeq(ip, Len(Mapped) + 1, Len(ip))
    ELSE Nil

\* strconv.Atoi: an optional sign and at least one digit, nothing else.
AtoiSigned(t) ==
    LET signed == t # <<>> /\ t[1] \in {"-", "+"}
        body == IF signed THEN Tail(t) ELSE t
    IN  IF body = <<>> \/ \E i \in 1..Len(body) : body[i] \notin Digits
        THEN [err |-> TRUE, n |-> 0]
        ELSE [err |-> FALSE,
              n |-> IF signed /\ t[1] = "-" THEN 0 - Atoi(body) ELSE Atoi(body)]

\* net.CIDRMask(ones, bits).
CIDRMask(ones, bits) == [i \in 1..bits |-> IF i <= ones THEN 1 ELSE 0]

\* ip.Mask(m): a 4-byte mask on an IPv4-mapped address works on its To4.
Mask(ip, m) ==
    LET a == IF Len(m) = V4Bits /\ Len(ip) = V6Bits /\ To4(ip) # Nil THEN To4(ip)
             ELSE ip
    IN  IF Len(a) # Len(m) THEN Nil ELSE [i \in 1..Len(a) |-> a[i] * m[i]]

\* parseCIDR (part_000, lines 394-424): the *net.IPNet it returns.
parseCIDR(t) ==
    LET i == Index(t) IN
    IF i = 0
    THEN LET ip == ParseIP(t)
             iplen == IF To4(ip) = Nil THEN V6Bits ELSE V4Bits
         IN  IF ip = Nil THEN NilNet
             ELSE [nil |-> FALSE, IP |-> ip, Mask |-> CIDRMask(iplen, iplen)]
    ELSE LET addr == SubSeq(t, 1, i - 1)
             mask == SubSeq(t, i + 1, Len(t))
             ip == ParseIP(addr)
             iplen == IF To4(ip) = Nil THEN V6Bits ELSE V4Bits
             a == AtoiSigned(mask)
         IN  IF ip = Nil \/ a.err \/ a.n < 0 \/ a.n > iplen THEN NilNet
             ELSE LET m == CIDRMask(a.n, iplen)
                  IN  [nil |-> FALSE, IP |-> Mask(ip, m), Mask |-> m]

\* The network a *net.IPNet stands for, as IPNet.String and Contains read it
\* (networkNumberAndMask): the family of the mask, the address in that
\* family's length, the number of leading ones.
NoNet == [fam |-> 0, ip |-> <<>>, bits |-> 0]
NetOf(n) ==
    IF n.nil THEN NoNet
    ELSE [fam |-> IF Len(n.Mask) = V4Bits THEN 4 ELSE 6,
          ip |-> IF Len(n.Mask) = V4Bits THEN To4(n.IP) ELSE n.IP,
          bits |-> Cardinality({i \in 1..Len(n.Mask) : n.Mask[i] = 1})]

InitCIDR ==
    /\ NotStarted
    /\ call \in {[fn |-> "parseCIDR", done |-> FALSE, arg |-> t] : t \in CIDRTexts}

ParseCIDRCall ==
    /\ call.fn = "parseCIDR" /\ ~call.done
    /\ call' = [fn |-> "parseCIDR", done |-> TRUE, arg |-> call.arg,
                res |-> parseCIDR(call.arg)]
    /\ UNCHANGED engineVars

SpecCIDR == InitCIDR /\ [][ParseCIDRCall]_vars

\* What the claim asks of parseCIDR on the text t: the address a, of the
\* family its notation shows, with the prefix length written after "/" (the
\* full length when nothing is written) and the bits past it cleared; nil
\* when a is no address or the length is no integer within the family's range.
Expected(t) ==
    LET a == Addr(t[1])
        w == IF a.form = "dotted" THEN V4Bits ELSE V6Bits
        len == AtoiSigned(SubSeq(t, 3, Len(t)))
        n == IF Len(t) = 1 THEN w ELSE len.n
    IN  IF ~a.ok THEN NoNet
        ELSE IF Len(t) > 1 /\ (len.err \/ n < 0 \/ n > w) THEN NoNet
        ELSE [fam |-> IF a.form = "dotted" THEN 4 ELSE 6,
              ip |-> [i \in 1..w |-> IF i <= n THEN a.bits[i] ELSE 0],
              bits |-> n]

\* C27: parseCIDR returns, for every valid input, the network with the host
\* bits cleared and the given prefix length (the full length, /32 or /128, for
\* a bare address), and nil for every input whose address is not valid or
\* whose prefix length is not an integer in 0..32 (IPv4) or 0..128 (IPv6).
C27_AsStated ==
    (call.fn = "parseCIDR" /\ call.done) => NetOf(call.res) = Expected(call.arg)

\* ------------------------------------------------------------------ mergeFlags
\* The settings mergeFlags writes, named as the flags are.
FlagNames == {"blocktime", "autodelete", "verbose", "port"}

\* The values a setting or a flag can hold: a block time in hours, a port.
FlagValues(f) ==
    CASE f = "blocktime" -> {0, 8}
      [] f = "port" -> {0, 1234}
      [] OTHER -> BOOLEAN

\* The value of a flag the command line does not set (part_002, lines 38-42).
FlagDefault(f) ==
    CASE f = "blocktime" -> 0
      [] f = "port" -> 0
      [] OTHER -> FALSE

\* The zero value of a flag's type: 0 and false.
ZeroValue(f) ==
    CASE f = "blocktime" -> 0
      [] f = "port" -> 0
      [] OTHER -> FALSE

\* c.Settings before the merge.
SettingsSet ==
    [blocktime : FlagValues("blocktime"), autodelete : FlagValues("autodelete"),
     verbose : FlagValues("verbose"), port : FlagValues("port")]

\* A command line: the flags it sets, and the value each flag variable holds
\* after flag.Parse, the default for a flag that is not set.
CommandLines ==
    {l \in [set : SUBSET FlagNames, val : SettingsSet] :
        \A f \in FlagNames : f \notin l.set => l.val[f] = FlagDefault(f)}

\* hasFlag (config.go, lines 49-57): flag.Visit comes by the flags set.
hasFlag(line, f) == f \in line.set

\* mergeFlags of config.go, lines 59-74: a setting is replaced when hasFlag
\* finds its flag.
mergeFlagsVisited(c, line) ==
    [f \in FlagNames |-> IF hasFlag(line, f) THEN line.val[f] ELSE c[f]]

\* mergeFlags of part_000, lines 51-65, the one newConfigFile calls: a setting
\* is replaced when the flag's value is not the zero value of its type.
mergeFlags(c, line) ==
    [f \in FlagNames |-> IF line.val[f] # ZeroValue(f) THEN line.val[f] ELSE c[f]]

InitFlags ==
    /\ NotStarted
    /\ call \in {[fn |-> v, done |-> FALSE, arg |-> [c |-> c, line |-> l]] :
                    v \in {"mergeFlags", "mergeFlagsVisited"},
                    c \in SettingsSet, l \in CommandLines}

MergeFlagsCall ==
    /\ call.fn = "mergeFlags" /\ ~call.done
    /\ call' = [fn |-> "mergeFlags", done |-> TRUE, arg |-> call.arg,
                res |-> mergeFlags(call.arg.c, call.arg.line)]
    /\ UNCHANGED engineVars

MergeFlagsVisitedCall ==
    /\ call.fn = "mergeFlagsVisited" /\ ~call.done
    /\ call' = [fn |-> "mergeFlagsVisited", done |-> TRUE, arg |-> call.arg,
                res |-> mergeFlagsVisited(call.arg.c, call.arg.line)]
    /\ UNCHANGED engineVars

SpecFlags == InitFlags /\ [][MergeFlagsCall \/ MergeFlagsVisitedCall]_vars

\* C28: after mergeFlags a setting (blocktime, autodelete, verbose, port)
\* holds the command-line value if its flag was set, and the value it had
\* before if the flag was not set.
C28_AsStated ==
    (call.fn \in {"mergeFlags", "mergeFlagsVisited"} /\ call.done)
    => \A f \in FlagNames :
          call.res[f] = IF f \in call.arg.line.set THEN call.arg.line.val[f]
                        ELSE call.arg.c[f]
====
